---- MODULE Spec2Model ----
(***************************************************************************)
(* Orca: dependency layering (src/src/analysis/dependency_analyzer.py,     *)
(* src/src/models/execution_graph.py), the session orchestrator            *)
(* (src/src/execution/parallel_orchestrator.py) and the worker pool        *)
(* coordinator (src/src/execution/agent_coordinator.py).                   *)
(*                                                                         *)
(* Modelling conventions.                                                  *)
(*  - Tasks and graphs are the duck-typed objects the code reads: every    *)
(*    attribute the code accesses (task.depends_on, the graph's            *)
(*    execution_layers and total_tasks, the DependencyType members) is     *)
(*    taken to resolve; control flow and data flow are those of the code.  *)
(*  - The code is asyncio code: a coroutine runs without interruption up   *)
(*    to an await that really suspends (an event callback, an MCP call,    *)
(*    the worker's work, the quality tools, asyncio.gather).  One action   *)
(*    is one such uninterrupted stretch.                                   *)
(*  - A dependency list is kept as a set of edges: a repeated edge adds    *)
(*    the same amount to in_degree and to adj_list, so it changes no       *)
(*    layer.  The order of tasks inside a layer is the iteration order of  *)
(*    a Python set and is not modelled: a layer is a set.                  *)
(***************************************************************************)
EXTENDS Integers, Sequences, FiniteSets, TLC

VARIABLES
    dg,          \* the DependencyGraph under analysis: [tasks, dependencies]
    analysis,    \* analyze_task_dependencies: [pc, error]
    gen,         \* _generate_execution_layers and create_execution_graph: [pc,
                 \* remaining, in_degree, layers, durations, factor, total_duration]
    graph,       \* the ExecutionGraph handed to the orchestrator
    session,     \* the ExecutionSession record
    orch,        \* the orchestrator: [pc, active, cancelled, errors, result,
                 \* quality_enforcement, lock]
    tpc,         \* each task coroutine's position
    tagent,      \* the agent each task coroutine holds (0: none)
    results,     \* session.task_results
    task_result, \* each task coroutine's local task_result, before it is recorded
    agents,      \* AgentCoordinator.agents: agent id -> [state, current_tasks]
    agent_assignment,   \* session id -> agent id (a dict: a function on a subset)
    agent_sessions,     \* agent id -> set of session ids
    executing,   \* ghost: the tasks whose execute_task call is in progress, per agent
    call,        \* the pause / resume call examined on its own (SpecControl): its
                 \* kind, what it returned, the number of calls made
    validation,  \* validate_task_quality examined on its own (SpecQuality): its
                 \* position, the sub-validations' statuses, overall_status
    estimate,    \* task id -> the task's estimated_duration_minutes (0: None)
    monitor,     \* ExecutionMonitor examined on its own (SpecMonitor): callbacks,
                 \* the session's monitoring data, the sampling loop's position
    coord,       \* AgentCoordinator._coordination_lock and the callers of
                 \* acquire_agent / release_agent examined on their own (SpecLock)
    depends_on,  \* task.depends_on of every task handed to
                 \* analyze_task_dependencies (SpecExtract)
    events,      \* per task, how often _fire_event was called with task_started,
                 \* task_completed and task_failed (history, never read)
    watch        \* ExecutionMonitor's data for the session: active_sessions and
                 \* monitoring_tasks entries, task_timelines, the long-running
                 \* checks under way, metrics_history, global_metrics

vars == <<dg, analysis, gen, graph, session, orch, tpc, tagent, results,
          task_result, agents, agent_assignment, agent_sessions, executing, call,
          validation, estimate, monitor, coord, depends_on, events,
      watch>>

graphVars == <<dg, analysis, gen, call, validation, estimate, monitor, coord, depends_on, events,
      watch>>
\* graphVars without the event history.
stillVars == <<dg, analysis, gen, call, validation, estimate, monitor, coord,
               depends_on, watch>>
runVars == <<graph, session, orch, tpc, tagent, results, task_result,
             agents, agent_assignment, agent_sessions, executing, call,
             validation, estimate, monitor, coord, depends_on, events,
      watch>>

-----------------------------------------------------------------------------
(* Bounds *)

NumTasks == 3
MaxEdges == 3
MaxAgents == 2
MaxDuration == 2

Tasks == 1..NumTasks

-----------------------------------------------------------------------------
(* Small helpers *)

RECURSIVE SetToSeq(_)
SetToSeq(S) ==
    IF S = {} THEN <<>>
    ELSE LET m == CHOOSE x \in S : \A y \in S : x <= y
         IN <<m>> \o SetToSeq(S \ {m})

RECURSIVE KSubsets(_, _)
KSubsets(S, k) ==
    IF k = 0 THEN {{}}
    ELSE LET smaller == KSubsets(S, k - 1)
         IN smaller \cup {E \cup {e} : E \in smaller, e \in S}

-----------------------------------------------------------------------------
(* Dependency graph: models/execution_graph.py *)

\* TaskDependency: from_task_id depends on to_task_id.
TaskDependency == [from_task_id : Tasks, to_task_id : Tasks, is_blocking : BOOLEAN]

\* The number of blocking edges from `f` to `t` in `deps`.
BlockingCount(deps, f, t) ==
    Cardinality({d \in deps : d.is_blocking /\ d.from_task_id = f /\ d.to_task_id = t})

\* Mutation: every edge is counted, blocking or not.
InitialInDegreeAllEdges(tasks, deps) ==
    [t \in tasks |-> Cardinality({d \in deps : d.from_task_id = t})]

\* in_degree after the "build graph" loop: one per blocking edge leaving the task.
InitialInDegree(tasks, deps) ==
    [t \in tasks |->
        Cardinality({d \in deps : d.is_blocking /\ d.from_task_id = t})]

\* adj_list[t]: the tasks that depend on t through a blocking edge.
Dependents(deps, t) ==
    {d.from_task_id : d \in {e \in deps : e.is_blocking /\ e.to_task_id = t}}

\* One pop of validate_acyclic's queue: in_degree after visiting `current`.
DecrementFor(tasks, deps, in_degree, current) ==
    [t \in tasks |-> in_degree[t] - BlockingCount(deps, t, current)]

RECURSIVE KahnCount(_, _, _, _, _)
KahnCount(tasks, deps, queue, in_degree, processed_count) ==
    IF queue = <<>> THEN processed_count
    ELSE LET current == Head(queue)
             after == DecrementFor(tasks, deps, in_degree, current)
             ready == {n \in Dependents(deps, current) : after[n] = 0}
         IN KahnCount(tasks, deps, Tail(queue) \o SetToSeq(ready), after,
                      processed_count + 1)

\* DependencyGraph.validate_acyclic
validate_acyclic(g) ==
    LET in_degree == InitialInDegree(g.tasks, g.dependencies)
        queue == SetToSeq({t \in g.tasks : in_degree[t] = 0})
    IN KahnCount(g.tasks, g.dependencies, queue, in_degree, 0)
         = Cardinality(g.tasks)

-----------------------------------------------------------------------------
(* analysis/dependency_analyzer.py: validation of the dependency graph *)

\* _validate_dependency_graph: the exception it raises ("none": it returns).
ValidateDependencyGraph(g, valid_task_ids) ==
    IF \E d \in g.dependencies :
          d.from_task_id \notin valid_task_ids \/ d.to_task_id \notin valid_task_ids
    THEN "DependencyAnalysisError"
    ELSE IF ~validate_acyclic(g) THEN "CircularDependencyError"
    ELSE "none"

\* analyze_task_dependencies, lines 86-88: the blanket `except Exception`
\* re-raises whatever was raised inside the try as a new DependencyAnalysisError.
AnalyzeOutcome(raised) ==
    IF raised = "none" THEN "none" ELSE "DependencyAnalysisError"

\* analyze_task_dependencies.  The edges that the extraction heuristics produced
\* are the drawn input dg.dependencies (all_dependencies); the action is the
\* construction of the graph, its validation and the exception wrapper.
AnalyzeTaskDependencies ==
    /\ analysis.pc = "input"
    /\ LET raised == ValidateDependencyGraph(dg, dg.tasks)
           error == AnalyzeOutcome(raised)
       IN analysis' = [pc |-> IF error = "none" THEN "ok" ELSE "raised",
                       error |-> error]
    /\ UNCHANGED <<dg, gen>>
    /\ UNCHANGED runVars

-----------------------------------------------------------------------------
(* analysis/dependency_analyzer.py: _generate_execution_layers *)

\* CompleteTask.estimated_duration_minutes is Optional[int] with gt=0; None is
\* written 0.
Unspecified == 0

\* Python's max() over the durations of the tasks of a layer: with one task
\* it returns that task's value, None included; with two or more it compares,
\* and a comparison with None raises TypeError.
LayerMaxDuration(est, layer) ==
    IF Cardinality(layer) >= 2 /\ \E t \in layer : est[t] = Unspecified
    THEN [raised |-> TRUE, value |-> Unspecified]
    ELSE [raised |-> FALSE,
          value |-> CHOOSE d \in {est[t] : t \in layer} :
                        \A t \in layer : est[t] <= d]

\* Mutation: placed tasks are looked at again.
CurrentLayerTasksPlacedToo(remaining, in_degree) ==
    {t \in DOMAIN in_degree : in_degree[t] = 0}

\* Mutation: one ready task at a time, the smallest id first.
CurrentLayerTasksOneAtATime(remaining, in_degree) ==
    {t \in remaining : /\ in_degree[t] = 0
                       /\ \A u \in remaining : in_degree[u] = 0 => t <= u}

\* Mutation: a task with one unsatisfied blocking edge is taken as ready.
CurrentLayerTasksOneEdgeLeft(remaining, in_degree) ==
    {t \in remaining : in_degree[t] <= 1}

\* Lines 434-437: the tasks of `remaining` whose in-degree is zero.
CurrentLayerTasks(remaining, in_degree) ==
    {t \in remaining : in_degree[t] = 0}

\* Lines 462-465: in_degree after the tasks of the layer were removed.
InDegreeAfterLayer(tasks, deps, in_degree, layer) ==
    [t \in tasks |->
        in_degree[t]
          - Cardinality({d \in deps : d.is_blocking /\ d.from_task_id = t
                                       /\ d.to_task_id \in layer})]

\* Lines 413-431: adjacency, in-degrees, remaining_tasks.  The caller is
\* create_execution_graph, with the graph analysis returned or (as the tests
\* do) a DependencyGraph built by hand.
StartGenerateLayers ==
    /\ gen.pc = "idle"
    /\ analysis.pc \in {"ok", "skipped"}
    /\ gen' = [gen EXCEPT
                  !.pc = "loop",
                  !.remaining = dg.tasks,
                  !.in_degree = InitialInDegree(dg.tasks, dg.dependencies),
                  !.layers = <<>>]
    /\ UNCHANGED <<dg, analysis>>
    /\ UNCHANGED runVars

\* One iteration of `while remaining_tasks` (lines 432-467).
LayerRound ==
    /\ gen.pc = "loop"
    /\ gen.remaining # {}
    /\ LET current == CurrentLayerTasks(gen.remaining, gen.in_degree)
           max_duration == LayerMaxDuration(estimate, current)
       IN IF current = {}
          THEN gen' = [gen EXCEPT !.pc = "raised"]
          ELSE IF max_duration.raised
          THEN gen' = [gen EXCEPT !.pc = "type_error"]
          ELSE gen' = [gen EXCEPT
                         !.layers = Append(@, current),
                         !.durations = Append(@, max_duration.value),
                         !.remaining = @ \ current,
                         !.in_degree = InDegreeAfterLayer(dg.tasks, dg.dependencies,
                                                          @, current)]
    /\ UNCHANGED <<dg, analysis>>
    /\ UNCHANGED runVars

\* Line 469: the loop ended, the layers are returned.
ReturnLayers ==
    /\ gen.pc = "loop"
    /\ gen.remaining = {}
    /\ gen' = [gen EXCEPT !.pc = "done"]
    /\ UNCHANGED <<dg, analysis>>
    /\ UNCHANGED runVars

RECURSIVE SumSeq(_)
SumSeq(seq) == IF seq = <<>> THEN 0 ELSE Head(seq) + SumSeq(Tail(seq))

\* A parallelization factor is kept as the fraction num / den.
NoFactor == [num |-> 0, den |-> 1]

\* Mutation: the share of tasks that lie in layers of more than one task.
calculate_parallelization_factorShare(execution_layers, total_tasks) ==
    IF execution_layers = <<>> \/ total_tasks = 0 THEN NoFactor
    ELSE [num |-> SumSeq([i \in 1..Len(execution_layers) |->
                             IF Cardinality(execution_layers[i]) > 1
                             THEN Cardinality(execution_layers[i]) ELSE 0]),
          den |-> total_tasks]

\* _calculate_parallelization_factor:
\* min(total_layer_tasks / len(execution_layers), total_tasks), or 0.0.
calculate_parallelization_factor(execution_layers, total_tasks) ==
    IF execution_layers = <<>> \/ total_tasks = 0 THEN NoFactor
    ELSE LET total_layer_tasks ==
                 SumSeq([i \in 1..Len(execution_layers) |->
                            Cardinality(execution_layers[i])])
         IN IF total_layer_tasks <= total_tasks * Len(execution_layers)
            THEN [num |-> total_layer_tasks, den |-> Len(execution_layers)]
            ELSE [num |-> total_tasks, den |-> 1]

\* create_execution_graph after the layers were generated (lines 119-133): the
\* parallelization factor and _calculate_total_duration, whose sum() raises
\* TypeError on a layer duration of None; the blanket except turns that into
\* DependencyAnalysisError.
CreateExecutionGraph ==
    /\ gen.pc = "done"
    /\ IF \E i \in 1..Len(gen.durations) : gen.durations[i] = Unspecified
       THEN gen' = [gen EXCEPT !.pc = "graph_error"]
       ELSE gen' = [gen EXCEPT
                      !.pc = "graph",
                      !.factor = calculate_parallelization_factor(
                                     gen.layers, Cardinality(dg.tasks)),
                      !.total_duration = SumSeq(gen.durations)]
    /\ UNCHANGED <<dg, analysis>>
    /\ UNCHANGED runVars

\* The whole of _generate_execution_layers as a function: the layers, or
\* <<"raised">> when a round finds no task of in-degree zero.
RECURSIVE LayersFrom(_, _, _, _, _)
LayersFrom(tasks, deps, remaining, in_degree, layers) ==
    IF remaining = {} THEN layers
    ELSE LET current == CurrentLayerTasks(remaining, in_degree)
         IN IF current = {} THEN <<"raised">>
            ELSE LayersFrom(tasks, deps, remaining \ current,
                            InDegreeAfterLayer(tasks, deps, in_degree, current),
                            Append(layers, current))

GenerateExecutionLayers(tasks, deps) ==
    LayersFrom(tasks, deps, tasks, InitialInDegree(tasks, deps), <<>>)

-----------------------------------------------------------------------------
(* models/quality_models.py: what the orchestrator reads of a QualityResult *)

Gates == {"tdd", "security", "performance", "code_quality"}

\* Mutation: the coverage comparison is left out.
meets_requirementsNoCoverage(tdd) ==
    /\ tdd.failing_tests = 0
    /\ tdd.test_count > 0
    /\ tdd.red_green_refactor_cycle_followed

\* TDDValidation.meets_requirements
meets_requirements(tdd) ==
    /\ tdd.test_coverage_percentage >= tdd.minimum_coverage_required
    /\ tdd.failing_tests = 0
    /\ tdd.test_count > 0
    /\ tdd.red_green_refactor_cycle_followed

\* SecurityValidation.meets_security_requirements
meets_security_requirements(sec) ==
    /\ sec.high_severity_vulnerabilities = 0
    /\ sec.vulnerability_scan_passed
    /\ sec.input_validation_implemented
    /\ sec.secure_coding_practices_followed

\* CodeQualityValidation.meets_quality_standards
meets_quality_standards(cq) ==
    /\ cq.static_analysis_passed
    /\ cq.type_checking_passed
    /\ cq.linting_passed
    /\ cq.code_style_violations = 0

\* The dict of _execute_single_task, lines 464-469: gate name -> passed.
GatePassed(q, gate) ==
    CASE gate = "tdd" -> meets_requirements(q.tdd_validation)
      [] gate = "security" -> meets_security_requirements(q.security_validation)
      [] gate = "performance" -> q.performance_validation.performance_requirements_met
      [] gate = "code_quality" -> meets_quality_standards(q.code_quality_validation)

\* QualityResult.all_quality_gates_passed
all_quality_gates_passed(q) ==
    /\ meets_requirements(q.tdd_validation)
    /\ meets_security_requirements(q.security_validation)
    /\ q.performance_validation.performance_requirements_met
    /\ meets_quality_standards(q.code_quality_validation)

\* The quality results the quality engine is taken to return (a bounded input):
\* all gates met; coverage 80 against 95; a high-severity finding with a lint
\* failure; performance requirements not met.
QualityPassed ==
    [tdd_validation |->
        [test_coverage_percentage |-> 96, minimum_coverage_required |-> 95,
         failing_tests |-> 0, test_count |-> 1,
         red_green_refactor_cycle_followed |-> TRUE],
     security_validation |->
        [high_severity_vulnerabilities |-> 0, vulnerability_scan_passed |-> TRUE,
         input_validation_implemented |-> TRUE,
         secure_coding_practices_followed |-> TRUE],
     performance_validation |-> [performance_requirements_met |-> TRUE],
     code_quality_validation |->
        [static_analysis_passed |-> TRUE, type_checking_passed |-> TRUE,
         linting_passed |-> TRUE, code_style_violations |-> 0]]

QualityLowCoverage ==
    [QualityPassed EXCEPT !.tdd_validation.test_coverage_percentage = 80]

QualityInsecureUnlinted ==
    [QualityPassed EXCEPT
        !.security_validation.high_severity_vulnerabilities = 1,
        !.security_validation.vulnerability_scan_passed = FALSE,
        !.code_quality_validation.linting_passed = FALSE]

QualitySlow ==
    [QualityPassed EXCEPT
        !.performance_validation.performance_requirements_met = FALSE]

QualityResults ==
    {QualityPassed, QualityLowCoverage, QualityInsecureUnlinted, QualitySlow}

\* QualityGateStatus as the four sub-validations set it: PASSED at
\* construction, FAILED by a check, ERROR by the except branch.
SubValidationStatuses == {"passed", "failed", "error"}

\* validate_task_quality before it is called.
NoValidation ==
    [pc |-> "idle", overall_status |-> "none", status |-> [gate \in Gates |-> "none"],
     performance |-> [benchmark_execution |-> FALSE, duration |-> 0,
                      benchmark_results |-> FALSE, memory_usage |-> 0,
                      status |-> "none", benchmark_executed |-> FALSE,
                      performance_requirements_met |-> FALSE],
     task_status |-> "none"]

\* ExecutionMonitor before any call: no callback registered, the session not
\* monitored.  `loop` is the sampling task's delivery of its alerts and
\* `event` the delivery made inside record_task_event: the alerts still to
\* fire (the head is being delivered) and the callback being awaited.
NoMonitor ==
    [registered |-> 0, tracked |-> FALSE, is_active |-> FALSE, alerts |-> <<>>,
     delivered |-> {}, samples |-> 0, events |-> 0,
     loop |-> [pc |-> "none", queue |-> <<>>, cb |-> 0],
     event |-> [pc |-> "idle", queue |-> <<>>, cb |-> 0]]

NoQuality == [none |-> TRUE]

-----------------------------------------------------------------------------
(* models/result_models.py *)

NoResult == [status |-> "none", quality_validation |-> NoQuality,
             error_details |-> [type |-> "none", failed_gates |-> {}]]

\* TaskResult.is_successful
TaskResultIsSuccessful(r) ==
    /\ r.status = "completed"
    /\ (r.quality_validation = NoQuality
        \/ all_quality_gates_passed(r.quality_validation))

\* Mutation: only the failed count is looked at.
ExecutionResultIsSuccessfulNoFailures(er) ==
    er.failed_tasks = 0

\* ExecutionResult.is_successful
ExecutionResultIsSuccessful(er) ==
    /\ er.failed_tasks = 0
    /\ er.successful_tasks = er.total_tasks
    /\ er.error_summary = 0

NoExecutionResult ==
    [total_tasks |-> 0, successful_tasks |-> 0, failed_tasks |-> 0,
     cancelled_tasks |-> 0, error_summary |-> 0, recorded |-> {}]

\* _create_execution_result followed by ExecutionResult.update_task_counts:
\* the counts are recomputed from the recorded task results.  error_summary is
\* kept as the number of errors.
CreateExecutionResult(g, task_results, execution_errors) ==
    LET recorded == {t \in g.tasks : task_results[t].status # "none"}
    IN [total_tasks |-> Cardinality(g.tasks),
        successful_tasks |->
            Cardinality({t \in recorded : TaskResultIsSuccessful(task_results[t])}),
        failed_tasks |->
            Cardinality({t \in recorded : task_results[t].status = "failed"}),
        cancelled_tasks |->
            Cardinality({t \in recorded : task_results[t].status = "cancelled"}),
        error_summary |-> execution_errors,
        recorded |-> recorded]

-----------------------------------------------------------------------------
(* execution/agent_coordinator.py *)

SessionId == "s1"

\* DevelopmentAgent: capabilities.max_concurrent_tasks
max_concurrent_tasks == 1

AgentIds == 1..MaxAgents

\* Python dict operations.
Put(d, k, v) == [x \in (DOMAIN d) \cup {k} |-> IF x = k THEN v ELSE d[x]]
Del(d, k) == [x \in (DOMAIN d) \ {k} |-> d[x]]

\* Mutation: the agent's state is not looked at.
is_availableIgnoringState(agent) ==
    Cardinality(agent.current_tasks) < max_concurrent_tasks

\* ExecutionAgent.is_available
is_available(agent) ==
    /\ agent.state = "idle"
    /\ Cardinality(agent.current_tasks) < max_concurrent_tasks

\* ExecutionAgent.get_load_factor, as the pair <<numerator, denominator>>.
get_load_factor(agent) ==
    IF max_concurrent_tasks = 0 THEN <<1, 1>>
    ELSE <<Cardinality(agent.current_tasks), max_concurrent_tasks>>

LoadLeq(x, y) == x[1] * y[2] <= y[1] * x[2]

\* Mutation: when no agent is available the least loaded agent is returned.
FindBestAgentNeverNone(pool) ==
    LET best == {a \in DOMAIN pool :
                    \A b \in DOMAIN pool :
                        LoadLeq(get_load_factor(pool[a]), get_load_factor(pool[b]))}
    IN IF DOMAIN pool = {} THEN 0
       ELSE CHOOSE a \in best : \A b \in best : a <= b

\* AgentCoordinator._find_best_agent: 0 stands for None.  min() returns the first
\* minimal element in the dict's (insertion) order, dev_agent_0 first.
FindBestAgent(pool) ==
    LET available == {a \in DOMAIN pool : is_available(pool[a])}
        best == {a \in available :
                    \A b \in available :
                        LoadLeq(get_load_factor(pool[a]), get_load_factor(pool[b]))}
    IN IF available = {} THEN 0
       ELSE CHOOSE a \in best : \A b \in best : a <= b

\* acquire_agent, lines 435-437: the bookkeeping of an assignment.
AssignedSessions(sessions_of, a, s) ==
    [sessions_of EXCEPT ![a] = @ \cup {s}]

\* release_agent, lines 451-455, and cleanup_session, lines 518-522.
ReleasedSessions(sessions_of, a, s) ==
    IF a \in DOMAIN sessions_of
    THEN [sessions_of EXCEPT ![a] = @ \ {s}]
    ELSE sessions_of

MaxCallers == 2

\* The coroutines that call acquire_agent and release_agent.
Callers == 1..MaxCallers

\* The lock is free (0) and every caller is outside the coordinator.
NoCoordination ==
    [lock |-> 0,
     callers |-> [p \in Callers |-> [pc |-> "idle", session |-> "none", agent |-> 0]]]

\* Mutation: the lock is never seen as held.
LockAvailableAlways(lock) == TRUE

\* asyncio.Lock: `async with self._coordination_lock` enters when the lock is
\* not held.
LockAvailable(lock) == lock = 0

\* initialize_agent_pool: max_agents development agents, each initialized to IDLE.
\* Called by the owner of the orchestrator; modelled before a session exists.
InitializeAgentPool ==
    /\ orch.pc = "idle"
    /\ DOMAIN agents = {}
    /\ agents' = [a \in AgentIds |-> [state |-> "idle", current_tasks |-> {}]]
    /\ agent_sessions' = [a \in AgentIds |-> {}]
    /\ executing' = [a \in AgentIds |-> {}]
    /\ UNCHANGED <<graph, session, orch, tpc, tagent, results, agent_assignment>>
    /\ UNCHANGED <<graphVars, task_result>>

\* pause_all_tasks
PausedAgents(pool, assignment, s) ==
    IF s \in DOMAIN assignment /\ assignment[s] \in DOMAIN pool
    THEN [pool EXCEPT ![assignment[s]].state = "paused"]
    ELSE pool

\* cancel_all_tasks
CancelledAgents(pool, assignment, s) ==
    IF s \in DOMAIN assignment /\ assignment[s] \in DOMAIN pool
    THEN [pool EXCEPT ![assignment[s]] = [state |-> "idle", current_tasks |-> {}]]
    ELSE pool

\* cleanup_session: the agent_sessions it leaves.
CleanedSessions(sessions_of, assignment, s) ==
    IF s \in DOMAIN assignment
    THEN ReleasedSessions(sessions_of, assignment[s], s)
    ELSE sessions_of

-----------------------------------------------------------------------------
(* execution/parallel_orchestrator.py *)

\* The constructor's quality_enforcement (default True), kept in orch.
quality_enforcement == orch.quality_enforcement

\* The layer (a set of task ids) with 0-based index k.
LayerTasks(g, k) == g.layers[k + 1]

\* The 0-based layer index of a task.
LayerIndexOf(g, t) == (CHOOSE i \in 1..Len(g.layers) : t \in g.layers[i]) - 1

\* Mutation: dependencies on ids the graph does not know are skipped.
VerifyLayerRaisesKnownOnly(g, completed_tasks, layer) ==
    \E t \in layer : \E dep_id \in g.depends_on[t] \cap g.tasks :
        dep_id \notin completed_tasks

\* _verify_layer_dependencies: TRUE when it raises ParallelExecutionError.
VerifyLayerRaises(g, completed_tasks, layer) ==
    \E t \in layer : \E dep_id \in g.depends_on[t] : dep_id \notin completed_tasks

\* _process_layer_results: success_rate >= 0.8 (0 when there are no results).
LayerSuccess(layer_results) ==
    LET successful_tasks ==
            Cardinality({t \in DOMAIN layer_results :
                            TaskResultIsSuccessful(layer_results[t])})
        total_tasks == Cardinality(DOMAIN layer_results)
    IN IF total_tasks > 0 THEN 10 * successful_tasks >= 8 * total_tasks ELSE FALSE

\* Mutation: an unsuccessful layer ends the loop.
BreaksLayerLoopOnFailure(g, layer_index, layer_success) ==
    ~layer_success

\* _execute_session, line 331: `not layer_success and not layers[layer_index:]`.
BreaksLayerLoop(g, layer_index, layer_success) ==
    /\ ~layer_success
    /\ SubSeq(g.layers, layer_index + 1, Len(g.layers)) = <<>>

\* _execute_single_task, lines 459-471 and 476: the task result once the quality
\* result is known.
QualityCheckedResult(q) ==
    IF ~all_quality_gates_passed(q)
    THEN [status |-> "failed", quality_validation |-> q,
          error_details |-> [type |-> "quality_gate_failure",
                             failed_gates |-> {gate \in Gates : ~GatePassed(q, gate)}]]
    ELSE [status |-> "completed", quality_validation |-> q,
          error_details |-> [type |-> "none", failed_gates |-> {}]]

\* _execute_single_task, lines 509-516: the result built by the except branch.
FailedResult(reason) ==
    [status |-> "failed", quality_validation |-> NoQuality,
     error_details |-> [type |-> reason, failed_gates |-> {}]]

\* No event of the task has been fired.
NoEvents == [task_started |-> 0, task_completed |-> 0, task_failed |-> 0]

(* execution/execution_monitor.py: the effect of start_session_monitoring and
   stop_session_monitoring on the monitor, used by the orchestrator's run and
   by SpecWatch. *)

\* Mutation: a failed event does not count as the end of the task.
TaskStillRunningUnlessCompleted(task_events) ==
    "started" \in task_events /\ "completed" \notin task_events

\* Lines 318 and 462: the task has a started event and neither a completed
\* nor a failed one.
TaskStillRunning(task_events) ==
    /\ "started" \in task_events
    /\ "completed" \notin task_events
    /\ "failed" \notin task_events

\* start_session_monitoring's effect on the monitor: the monitoring data, the
\* monitoring task, total_sessions.
StartedWatch(w) ==
    [w EXCEPT !.active = TRUE, !.is_active = TRUE, !.in_tasks = TRUE,
              !.loop = "running", !.timeline = [t \in Tasks |-> {}],
              !.history = 0,
              !.global.total_sessions = @ + 1]

\* _calculate_current_metrics: the three counts over task_timelines and the
\* completion rate as a fraction of total_tasks (0 when there is no task).
CalculateCurrentMetrics(timeline, total_tasks) ==
    LET completed == {t \in DOMAIN timeline : "completed" \in timeline[t]}
        failed == {t \in DOMAIN timeline : "failed" \in timeline[t]} \ completed
        running == {t \in DOMAIN timeline : TaskStillRunning(timeline[t])}
    IN [completed_tasks |-> Cardinality(completed),
        failed_tasks |-> Cardinality(failed),
        running_tasks |-> Cardinality(running),
        rate_num |-> IF total_tasks > 0 THEN Cardinality(completed) ELSE 0,
        rate_den |-> IF total_tasks > 0 THEN total_tasks ELSE 1]

\* Mutation: both counters are incremented.
FinalizeSessionMetricsBoth(global, m) ==
    [global EXCEPT !.successful_sessions = @ + 1, !.failed_sessions = @ + 1,
                   !.total_tasks_executed = @ + m.completed_tasks]

\* _finalize_session_metrics: successful when the completion rate is at
\* least 0.8, failed otherwise.
FinalizeSessionMetrics(global, m) ==
    IF 10 * m.rate_num >= 8 * m.rate_den
    THEN [global EXCEPT !.successful_sessions = @ + 1,
                        !.total_tasks_executed = @ + m.completed_tasks]
    ELSE [global EXCEPT !.failed_sessions = @ + 1,
                        !.total_tasks_executed = @ + m.completed_tasks]

\* stop_session_monitoring, lines 161-172: the second `if`, with no
\* suspension: is_active False, the final metrics, the data deleted.
FinalizedWatch(w, total_tasks) ==
    IF w.active
    THEN [w EXCEPT !.active = FALSE, !.is_active = FALSE,
                   !.timeline = [t \in Tasks |-> {}], !.history = 0,
                   !.global = FinalizeSessionMetrics(
                                 @, CalculateCurrentMetrics(w.timeline, total_tasks))]
    ELSE w

\* stop_session_monitoring up to `await monitoring_task` (the task is
\* cancelled), or to its end when the session has no monitoring task.
StopBegun(w, total_tasks) ==
    IF w.in_tasks
    THEN [w EXCEPT !.loop = IF @ = "running" THEN "cancelled" ELSE @,
                   !.stopping = @ + 1]
    ELSE FinalizedWatch(w, total_tasks)

\* stop_session_monitoring after the await: `del self.monitoring_tasks[...]`
\* raises KeyError when another stop deleted the entry meanwhile, and the
\* blanket except ends the call; else the entry is deleted and the second
\* `if` follows.
StopResumed(w, total_tasks) ==
    IF ~w.in_tasks
    THEN [w EXCEPT !.stopping = @ - 1]
    ELSE FinalizedWatch([w EXCEPT !.stopping = @ - 1, !.in_tasks = FALSE],
                        total_tasks)

\* execute_implementation_plan up to its first suspension:
\* _create_execution_session registers the session (state INITIALIZING).
ExecuteImplementationPlan(g) ==
    /\ orch.pc = "idle"
    /\ graph' = g
    /\ session' = [state |-> "initializing", current_layer |-> 0,
                   completed_tasks |-> {}, failed_tasks |-> {}, running_tasks |-> {}]
    /\ orch' = [orch EXCEPT !.pc = "created", !.active = TRUE]
    /\ tpc' = [t \in g.tasks |-> "new"]
    /\ tagent' = [t \in g.tasks |-> 0]
    /\ results' = [t \in g.tasks |-> NoResult]
    /\ task_result' = [t \in g.tasks |-> NoResult]
    /\ events' = [t \in g.tasks |-> NoEvents]
    /\ UNCHANGED <<agents, agent_assignment, agent_sessions, executing>>
    /\ UNCHANGED stillVars

\* A graph without tasks and without layers.
EmptyGraph == [tasks |-> {}, depends_on |-> <<>>, blocking |-> {}, layers |-> <<>>]

\* _create_execution_result raises: ZeroDivisionError of
\* total_tasks / len(execution_layers) with no layer, the ValidationError of
\* ExecutionResult(total_tasks=0) (gt=0) with no task.
CreateExecutionResultRaises(g) ==
    Len(g.layers) = 0 \/ Cardinality(g.tasks) = 0

\* execute_implementation_plan, lines 141-146, and _execute_session, lines
\* 309-323: the monitoring starts; EXECUTING, the first layer's index, up to the
\* layer_started event.  With no layer the loop is skipped and line 344 follows
\* at once: when _create_execution_result raises there, outside the try of
\* _execute_session, lines 346-355 are skipped and execute_implementation_plan
\* raises ParallelExecutionError (pc "raised").
StartExecution ==
    /\ orch.pc = "created"
    /\ session' = [session EXCEPT !.state = "executing", !.current_layer = 0]
    /\ orch' = [orch EXCEPT !.pc = IF CreateExecutionResultRaises(graph)
                                   THEN "raised" ELSE "layer_start"]
    /\ watch' = StartedWatch(watch)
    /\ UNCHANGED <<graph, tpc, tagent, results, agents, agent_assignment,
                   agent_sessions, executing>>
    /\ UNCHANGED <<dg, analysis, gen, call, validation, estimate, monitor, coord,
                   depends_on, events, task_result>>

\* The end of _execute_session from line 343: the execution result, the
\* terminal state, up to the session_completed / session_failed event.
Finalized(s, er) ==
    [s EXCEPT !.state = IF ExecutionResultIsSuccessful(er)
                        THEN "completed" ELSE "failed"]

\* _execute_layer up to asyncio.gather: verification, then the launch of every
\* task of the layer that is not completed.  A verification failure is caught
\* at line 338 and the session is finalized.
ExecuteLayer ==
    /\ orch.pc = "layer_start"
    /\ LET layer == LayerTasks(graph, session.current_layer)
           launch == {t \in layer : t \notin session.completed_tasks}
       IN IF VerifyLayerRaises(graph, session.completed_tasks, layer)
          THEN LET er == CreateExecutionResult(graph, results, orch.errors + 1)
               IN /\ orch' = [orch EXCEPT !.pc = "finishing", !.errors = @ + 1,
                                          !.result = er]
                  /\ session' = Finalized([session EXCEPT !.state = "failed"], er)
                  /\ UNCHANGED tpc
          ELSE /\ session' = [session EXCEPT !.running_tasks = @ \cup launch]
               /\ tpc' = [t \in graph.tasks |->
                             IF t \in launch THEN "started" ELSE tpc[t]]
               /\ orch' = [orch EXCEPT !.pc = "gather"]
    /\ UNCHANGED <<graph, tagent, results, agents, agent_assignment,
                   agent_sessions, executing>>
    /\ UNCHANGED <<graphVars, task_result>>

\* The tasks asyncio.gather of the current layer waits for.
Launched(layer) == {t \in layer : tpc[t] # "new"}

\* Mutation: the fan-in returns with the first coroutine that returns.
FanInCompleteFirst(layer) ==
    \E t \in Launched(layer) : tpc[t] = "done"

\* The fan-in is complete: every launched coroutine has returned.
FanInComplete(layer) == \A t \in Launched(layer) : tpc[t] = "done"

\* After asyncio.gather: _process_layer_results, the break test, the
\* layer_completed event, and either the next layer's index or the end of the
\* loop with the execution result and the terminal state.
CollectLayer ==
    /\ orch.pc = "gather"
    /\ LET k == session.current_layer
           layer == LayerTasks(graph, k)
           layer_results == [t \in Launched(layer) |-> results[t]]
           stop == \/ BreaksLayerLoop(graph, k, LayerSuccess(layer_results))
                   \/ k + 1 = Len(graph.layers)
           er == CreateExecutionResult(graph, results, orch.errors)
       IN /\ FanInComplete(layer)
          /\ IF stop
             THEN /\ orch' = [orch EXCEPT !.pc = "finishing", !.result = er]
                  /\ session' = Finalized(session, er)
             ELSE /\ orch' = [orch EXCEPT !.pc = "layer_start"]
                  /\ session' = [session EXCEPT !.current_layer = k + 1]
    /\ UNCHANGED <<graph, tpc, tagent, results, agents, agent_assignment,
                   agent_sessions, executing>>
    /\ UNCHANGED <<graphVars, task_result>>

\* _cleanup_session at the end of _execute_session: stop_session_monitoring,
\* cleanup_session of the coordinator, the session leaves active_sessions.
CleanupSession ==
    /\ orch.pc = "finishing"
    /\ agent_sessions' = CleanedSessions(agent_sessions, agent_assignment, SessionId)
    /\ agent_assignment' = Del(agent_assignment, SessionId)
    /\ orch' = [orch EXCEPT !.pc = "finished", !.active = FALSE]
    /\ watch' = StopResumed(StopBegun(watch, Cardinality(graph.tasks)),
                            Cardinality(graph.tasks))
    /\ UNCHANGED <<graph, session, tpc, tagent, results, agents, executing>>
    /\ UNCHANGED <<dg, analysis, gen, call, validation, estimate, monitor, coord,
                   depends_on, events, task_result>>

\* Mutation: a task_failed event is not fired.
FireEventUnlessFailed(fired, t, event_type) ==
    IF event_type = "task_failed" THEN fired
    ELSE [fired EXCEPT ![t][event_type] = @ + 1]

\* _fire_event(event_type, session, task, ...): one more call with this type
\* for the task; an exception of a callback is logged and swallowed.
FireEvent(fired, t, event_type) ==
    [fired EXCEPT ![t][event_type] = @ + 1]

\* Lines 479-494: task_completed for a successful result, else task_failed.
TaskFinishedEvent(r) ==
    IF TaskResultIsSuccessful(r) THEN "task_completed" ELSE "task_failed"

\* The except branch of _execute_single_task (lines 502-521): the task leaves
\* the running set, enters the failed set and gets a failed result.
\* `fired`: the event history when the exception is caught.
TaskFails(t, reason, fired) ==
    /\ session' = [session EXCEPT !.running_tasks = @ \ {t},
                                  !.failed_tasks = @ \cup {t}]
    /\ results' = [results EXCEPT ![t] = FailedResult(reason)]
    /\ events' = FireEvent(fired, t, "task_failed")
    /\ tpc' = [tpc EXCEPT ![t] = "done"]

\* _execute_single_task from the task_started event to the worker's first
\* suspension: acquire_agent, then the start of DevelopmentAgent.execute_task
\* (compatibility check, BUSY, current_tasks.add).
TaskAcquire(t) ==
    /\ tpc[t] = "started"
    /\ LET a == FindBestAgent(agents)
       IN \/ /\ a = 0      \* AgentCoordinationError: no agent available
             /\ TaskFails(t, "AgentCoordinationError",
                          FireEvent(events, t, "task_started"))
             /\ UNCHANGED <<tagent, agents, agent_assignment, agent_sessions,
                            executing>>
          \/ /\ a # 0      \* the task is not compatible: ValueError, release
             /\ TaskFails(t, "ValueError", FireEvent(events, t, "task_started"))
             /\ agent_sessions' = ReleasedSessions(agent_sessions, a, SessionId)
             /\ agent_assignment' = Del(agent_assignment, SessionId)
             /\ UNCHANGED <<tagent, agents, executing>>
          \/ /\ a # 0      \* the worker starts the task
             /\ agent_assignment' = Put(agent_assignment, SessionId, a)
             /\ agent_sessions' = AssignedSessions(agent_sessions, a, SessionId)
             /\ agents' = [agents EXCEPT ![a].state = "busy",
                                         ![a].current_tasks = @ \cup {t}]
             /\ executing' = [executing EXCEPT ![a] = @ \cup {t}]
             /\ tagent' = [tagent EXCEPT ![t] = a]
             /\ tpc' = [tpc EXCEPT ![t] = "executing"]
             /\ events' = FireEvent(events, t, "task_started")
             /\ UNCHANGED <<session, results>>
    /\ UNCHANGED <<graph, orch>>
    /\ UNCHANGED <<stillVars, task_result>>

\* The worker's finally clause (agent_coordinator.py lines 189-191).
WorkerFinished(pool, a, t) ==
    [pool EXCEPT ![a].state = "idle", ![a].current_tasks = @ \ {t}]

\* Mutation: the completed set is rebuilt from the task alone.
SessionTrackingForgets(s, t, r) ==
    IF TaskResultIsSuccessful(r)
    THEN [s EXCEPT !.running_tasks = @ \ {t}, !.completed_tasks = {t}]
    ELSE [s EXCEPT !.running_tasks = @ \ {t}, !.failed_tasks = @ \cup {t}]

\* Mutation: the task is not taken out of the running set.
SessionTrackingKeepsRunning(s, t, r) ==
    IF TaskResultIsSuccessful(r)
    THEN [s EXCEPT !.completed_tasks = @ \cup {t}]
    ELSE [s EXCEPT !.failed_tasks = @ \cup {t}]

\* Lines 476-494 up to the task_completed / task_failed event: the task leaves
\* the running set and enters the completed or the failed set.
SessionTracking(s, t, r) ==
    IF TaskResultIsSuccessful(r)
    THEN [s EXCEPT !.running_tasks = @ \ {t}, !.completed_tasks = @ \cup {t}]
    ELSE [s EXCEPT !.running_tasks = @ \ {t}, !.failed_tasks = @ \cup {t}]

\* DevelopmentAgent.execute_task returns; _execute_single_task goes on to the
\* quality validation (success, enforcement on), to the session tracking
\* (success, enforcement off), or raises and releases the agent (failure).
TaskWorkerReturns(t) ==
    /\ tpc[t] = "executing"
    /\ LET a == tagent[t]
           r == [NoResult EXCEPT !.status = "completed"]
       IN /\ agents' = WorkerFinished(agents, a, t)
          /\ executing' = [executing EXCEPT ![a] = @ \ {t}]
          /\ \/ /\ quality_enforcement      \* success: await validate_task_quality
                /\ tpc' = [tpc EXCEPT ![t] = "validating"]
                /\ task_result' = [task_result EXCEPT ![t] = r]
                /\ UNCHANGED <<session, results, tagent, agent_assignment,
                               agent_sessions, events>>
             \/ /\ ~quality_enforcement     \* success, no quality gates
                /\ task_result' = [task_result EXCEPT ![t] = r]
                /\ session' = SessionTracking(session, t, r)
                /\ events' = FireEvent(events, t, TaskFinishedEvent(r))
                /\ tpc' = [tpc EXCEPT ![t] = "recording"]
                /\ UNCHANGED <<results, tagent, agent_assignment, agent_sessions>>
             \/ /\ TaskFails(t, "TaskExecutionFailed", events)   \* success = False
                /\ agent_sessions' = ReleasedSessions(agent_sessions, a, SessionId)
                /\ agent_assignment' = Del(agent_assignment, SessionId)
                /\ tagent' = [tagent EXCEPT ![t] = 0]
                /\ UNCHANGED task_result
    /\ UNCHANGED <<graph, orch>>
    /\ UNCHANGED stillVars

\* validate_task_quality returns q: lines 456-494, the result is decided and
\* the session sets are updated, up to the task_completed / task_failed event.
TaskValidated(t, q) ==
    /\ tpc[t] = "validating"
    /\ task_result' = [task_result EXCEPT ![t] = QualityCheckedResult(q)]
    /\ session' = SessionTracking(session, t, QualityCheckedResult(q))
    /\ events' = FireEvent(events, t, TaskFinishedEvent(QualityCheckedResult(q)))
    /\ tpc' = [tpc EXCEPT ![t] = "recording"]
    /\ UNCHANGED <<graph, orch, tagent, results, agents, agent_assignment,
                   agent_sessions, executing>>
    /\ UNCHANGED stillVars

\* After the event: line 496 records the result, the finally clause releases
\* the agent, the coroutine returns.
TaskRecorded(t) ==
    /\ tpc[t] = "recording"
    /\ results' = [results EXCEPT ![t] = task_result[t]]
    /\ tpc' = [tpc EXCEPT ![t] = "done"]
    /\ agent_sessions' = ReleasedSessions(agent_sessions, tagent[t], SessionId)
    /\ agent_assignment' = Del(agent_assignment, SessionId)
    /\ tagent' = [tagent EXCEPT ![t] = 0]
    /\ UNCHANGED <<graph, orch, session, agents, executing>>
    /\ UNCHANGED <<graphVars, task_result>>

\* Mutation: the session's state is not looked at.
pause_executionAnyState(active, s, pool, assignment) ==
    IF active
    THEN [returned |-> TRUE, session |-> [s EXCEPT !.state = "paused"],
          agents |-> PausedAgents(pool, assignment, SessionId)]
    ELSE [returned |-> FALSE, session |-> s, agents |-> pool]

\* pause_execution as a function of what it reads: the value it returns, the
\* session and the pool it leaves.  `active`: the session is in active_sessions.
pause_execution(active, s, pool, assignment) ==
    IF active /\ s.state = "executing"
    THEN [returned |-> TRUE, session |-> [s EXCEPT !.state = "paused"],
          agents |-> PausedAgents(pool, assignment, SessionId)]
    ELSE [returned |-> FALSE, session |-> s, agents |-> pool]

\* resume_execution as a function of what it reads; _resume_session_execution
\* does nothing.
resume_execution(active, s, pool) ==
    IF active /\ s.state = "paused"
    THEN [returned |-> TRUE, session |-> [s EXCEPT !.state = "executing"],
          agents |-> pool]
    ELSE [returned |-> FALSE, session |-> s, agents |-> pool]

\* pause_execution during a run, when it returns True (a call that returns
\* False changes nothing).
PauseExecution ==
    /\ orch.lock = "free"
    /\ LET out == pause_execution(orch.active, session, agents, agent_assignment)
       IN /\ out.returned
          /\ session' = out.session
          /\ agents' = out.agents
    /\ UNCHANGED <<graph, orch, tpc, tagent, results, agent_assignment,
                   agent_sessions, executing>>
    /\ UNCHANGED <<graphVars, task_result>>

\* resume_execution during a run, when it returns True.
ResumeExecution ==
    /\ orch.lock = "free"
    /\ LET out == resume_execution(orch.active, session, agents)
       IN /\ out.returned
          /\ session' = out.session
          /\ agents' = out.agents
    /\ UNCHANGED <<graph, orch, tpc, tagent, results, agent_assignment,
                   agent_sessions, executing>>
    /\ UNCHANGED <<graphVars, task_result>>

\* cancel_execution on the active session, up to the suspension inside
\* _cleanup_session (stop_session_monitoring awaits the monitoring task):
\* CANCELLED and cancel_all_tasks, with the execution lock held.
CancelExecution ==
    /\ orch.lock = "free"
    /\ orch.active
    /\ session' = [session EXCEPT !.state = "cancelled"]
    /\ agents' = CancelledAgents(agents, agent_assignment, SessionId)
    /\ orch' = [orch EXCEPT !.lock = "cancel", !.cancelled = TRUE]
    /\ watch' = StopBegun(watch, Cardinality(graph.tasks))
    /\ UNCHANGED <<graph, tpc, tagent, results, agent_assignment, agent_sessions,
                   executing>>
    /\ UNCHANGED <<dg, analysis, gen, call, validation, estimate, monitor, coord,
                   depends_on, events, task_result>>

\* The rest of cancel_execution: stop_session_monitoring resumes when it was
\* suspended at `await monitoring_task`, then cleanup_session of the
\* coordinator, the session leaves active_sessions, the execution lock is
\* released.
CancelCleanup ==
    /\ orch.lock = "cancel"
    /\ agent_sessions' = CleanedSessions(agent_sessions, agent_assignment, SessionId)
    /\ agent_assignment' = Del(agent_assignment, SessionId)
    /\ orch' = [orch EXCEPT !.active = FALSE, !.lock = "free"]
    /\ watch' = IF watch.stopping > 0
                THEN StopResumed(watch, Cardinality(graph.tasks))
                ELSE watch
    /\ UNCHANGED <<graph, session, tpc, tagent, results, agents, executing>>
    /\ UNCHANGED <<dg, analysis, gen, call, validation, estimate, monitor, coord,
                   depends_on, events, task_result>>

-----------------------------------------------------------------------------
(* Initial values *)

TaskSets == {1..n : n \in 0..NumTasks}

DependencyGraphs ==
    UNION {{[tasks |-> T, dependencies |-> E] :
              E \in KSubsets({d \in TaskDependency :
                                 d.from_task_id \in T /\ d.to_task_id \in T},
                             MaxEdges)} : T \in TaskSets}

\* Four tasks A, B, C, D (1, 2, 3, 4): B depends on A, D depends on B and C.
ScenarioGraph ==
    [tasks |-> 1..4,
     dependencies |-> {[from_task_id |-> 2, to_task_id |-> 1, is_blocking |-> TRUE],
                       [from_task_id |-> 4, to_task_id |-> 2, is_blocking |-> TRUE],
                       [from_task_id |-> 4, to_task_id |-> 3, is_blocking |-> TRUE]}]

GenIdle == [pc |-> "idle", remaining |-> {}, in_degree |-> <<>>, layers |-> <<>>,
            durations |-> <<>>, factor |-> NoFactor, total_duration |-> 0]

\* No session: the orchestrator and the pool as constructed.
NoGraph == [tasks |-> {}, depends_on |-> <<>>, blocking |-> {}, layers |-> <<>>]

NoCall == [op |-> "none", returned |-> FALSE, n |-> 0]

\* The event types of record_task_event that the monitor reads.
TaskEventTypes == {"started", "completed", "failed"}

\* The monitor as constructed: no session, global_metrics all zero.
\* `stopping`: the calls of stop_session_monitoring suspended at
\* `await monitoring_task`; `checks`: the _check_long_running_task tasks
\* asleep, per task; `long_running`: the long_running_task alerts appended and
\* fired, per task.
NoWatch ==
    [active |-> FALSE, is_active |-> FALSE, in_tasks |-> FALSE, loop |-> "none",
     timeline |-> [t \in Tasks |-> {}],
     checks |-> [t \in Tasks |-> 0],
     long_running |-> [t \in Tasks |-> 0],
     history |-> 0, samples |-> 0, recorded |-> 0, stopping |-> 0, stops |-> 0,
     global |-> [total_sessions |-> 0, successful_sessions |-> 0,
                 failed_sessions |-> 0, total_tasks_executed |-> 0]]

RunIdle(enforce) ==
    /\ graph = NoGraph
    /\ session = [state |-> "none", current_layer |-> 0, completed_tasks |-> {},
                  failed_tasks |-> {}, running_tasks |-> {}]
    /\ orch = [pc |-> "idle", active |-> FALSE, cancelled |-> FALSE, errors |-> 0,
               result |-> NoExecutionResult, quality_enforcement |-> enforce,
               lock |-> "free"]
    /\ tpc = <<>>
    /\ tagent = <<>>
    /\ results = <<>>
    /\ task_result = <<>>
    /\ agents = <<>>
    /\ agent_assignment = <<>>
    /\ agent_sessions = <<>>
    /\ executing = <<>>
    /\ call = NoCall
    /\ validation = NoValidation
    /\ monitor = NoMonitor
    /\ coord = NoCoordination
    /\ events = <<>>
    /\ watch = NoWatch

InitLayer ==
    /\ dg \in DependencyGraphs \cup {ScenarioGraph}
    /\ estimate = [t \in dg.tasks |-> t]
    /\ depends_on = <<>>
    /\ analysis \in {[pc |-> p, error |-> "none"] : p \in {"input", "skipped"}}
    /\ gen = GenIdle
    /\ RunIdle(TRUE)

\* Graphs and estimates for the duration metrics (SpecDuration): blocking
\* edges from a task to a task of smaller id, and every task's estimate drawn
\* from None and 1..MaxDuration.
DurationGraphs ==
    {g \in DependencyGraphs :
        \A d \in g.dependencies : d.is_blocking /\ d.to_task_id < d.from_task_id}

InitDuration ==
    /\ dg \in DurationGraphs
    /\ estimate \in [dg.tasks -> {Unspecified} \cup (1..MaxDuration)]
    /\ depends_on = <<>>
    /\ analysis \in {[pc |-> p, error |-> "none"] : p \in {"input", "skipped"}}
    /\ gen = GenIdle
    /\ RunIdle(TRUE)

NextLayer ==
    \/ AnalyzeTaskDependencies
    \/ StartGenerateLayers
    \/ LayerRound
    \/ ReturnLayers
    \/ CreateExecutionGraph

SpecLayer == InitLayer /\ [][NextLayer]_vars

\* The analyzer's code runs on: a step that can be taken is taken.
SpecLayerFair == SpecLayer /\ WF_vars(NextLayer)

SpecDuration == InitDuration /\ [][NextLayer]_vars

-----------------------------------------------------------------------------
(* The execution graphs handed to the orchestrator *)

MaxRunDeps == 2

\* An id no task of the run has.
UnknownId == 0

\* A dependency of a task: declared in task.depends_on (possibly on an unknown
\* id, which graph construction drops) or inferred by the analyzer (file or
\* architectural, blocking).  Every acyclic graph has a numbering of its tasks
\* in which dependencies point to lower numbers: these are the graphs drawn.
DepFacts ==
    {f \in [from : Tasks, to : {UnknownId} \cup Tasks, declared : BOOLEAN] :
        /\ f.to < f.from
        /\ (f.to = UnknownId => f.declared)}

EdgesOf(facts) ==
    {[from_task_id |-> f.from, to_task_id |-> f.to, is_blocking |-> TRUE] :
        f \in {x \in facts : x.to # UnknownId}}

\* The ExecutionGraph create_execution_graph builds for the tasks and edges.
MakeGraph(facts) ==
    [tasks |-> Tasks,
     depends_on |-> [t \in Tasks |-> {f.to : f \in {x \in facts : x.from = t /\ x.declared}}],
     blocking |-> {<<d.from_task_id, d.to_task_id>> : d \in EdgesOf(facts)},
     layers |-> GenerateExecutionLayers(Tasks, EdgesOf(facts))]

ExecutionGraphs == {MakeGraph(facts) : facts \in KSubsets(DepFacts, MaxRunDeps)}

Init ==
    /\ dg = [tasks |-> {}, dependencies |-> {}]
    /\ estimate = <<>>
    /\ depends_on = <<>>
    /\ analysis = [pc |-> "skipped", error |-> "none"]
    /\ gen = GenIdle
    /\ \E enforce \in BOOLEAN : RunIdle(enforce)

Next ==
    \/ InitializeAgentPool
    \/ \E g \in ExecutionGraphs : ExecuteImplementationPlan(g)
    \/ StartExecution
    \/ ExecuteLayer
    \/ \E t \in DOMAIN tpc : TaskAcquire(t)
    \/ \E t \in DOMAIN tpc : TaskWorkerReturns(t)
    \/ \E t \in DOMAIN tpc : \E q \in QualityResults : TaskValidated(t, q)
    \/ \E t \in DOMAIN tpc : TaskRecorded(t)
    \/ CollectLayer
    \/ CleanupSession
    \/ PauseExecution
    \/ ResumeExecution
    \/ CancelExecution
    \/ CancelCleanup

Spec == Init /\ [][Next]_vars

-----------------------------------------------------------------------------
(* Properties of the layering (SpecLayer) *)

\* The tasks that tasks of S depend on through one blocking edge.
BlockingPrereqs(deps, S) ==
    {d.to_task_id : d \in {e \in deps : e.is_blocking /\ e.from_task_id \in S}}

RECURSIVE PrereqClosure(_, _)
PrereqClosure(deps, S) ==
    LET next == S \cup BlockingPrereqs(deps, S)
    IN IF next = S THEN S ELSE PrereqClosure(deps, next)

\* No task reaches itself through blocking edges.
AcyclicBlocking(g) ==
    \A t \in g.tasks :
        t \notin PrereqClosure(g.dependencies, BlockingPrereqs(g.dependencies, {t}))

LayersOf(t) == {i \in 1..Len(gen.layers) : t \in gen.layers[i]}

\* C2: for a task set whose blocking edges are acyclic, the returned layers
\* hold every task exactly once, and for every blocking edge (u depends on v)
\* the layer of v comes strictly before the layer of u.
C2_LayersPartitionAndOrder ==
    (gen.pc = "done" /\ AcyclicBlocking(dg)) =>
        /\ \A t \in dg.tasks : Cardinality(LayersOf(t)) = 1
        /\ \A i \in 1..Len(gen.layers) : gen.layers[i] \subseteq dg.tasks
        /\ \A d \in dg.dependencies :
              d.is_blocking =>
                 \A i \in LayersOf(d.to_task_id) : \A j \in LayersOf(d.from_task_id) :
                     i < j

\* A chain of three tasks was layered into three layers.
C2_Witness ==
    /\ gen.pc = "done"
    /\ AcyclicBlocking(dg)
    /\ Len(gen.layers) = 3
    /\ Cardinality({d \in dg.dependencies : d.is_blocking}) >= 2

\* The tasks of the layers before layer i.
EarlierLayers(i) == UNION {gen.layers[j] : j \in 1..(i - 1)}

\* The number of edges of the longest chain of blocking dependencies that
\* starts at t (acyclic graphs only).
RECURSIVE LongestChain(_, _)
LongestChain(deps, t) ==
    LET prereqs == BlockingPrereqs(deps, {t})
    IN IF prereqs = {} THEN 0
       ELSE LET lengths == {LongestChain(deps, p) : p \in prereqs}
            IN 1 + CHOOSE n \in lengths : \A m \in lengths : m <= n

\* C20: for a task set whose blocking edges are acyclic, every returned layer
\* is the entire ready frontier (the tasks in no earlier layer whose blocking
\* dependencies all lie in earlier layers), a task's layer index is the length
\* of its longest chain of blocking dependencies, and the four-task scenario
\* is layered {A, C}, {B}, {D}.
C20_LayerIsWholeReadyFrontier ==
    (gen.pc = "done" /\ AcyclicBlocking(dg)) =>
        /\ \A i \in 1..Len(gen.layers) :
              gen.layers[i] =
                 {t \in dg.tasks :
                     /\ t \notin EarlierLayers(i)
                     /\ BlockingPrereqs(dg.dependencies, {t}) \subseteq EarlierLayers(i)}
        /\ \A t \in dg.tasks :
              LayersOf(t) = {LongestChain(dg.dependencies, t) + 1}
        /\ dg = ScenarioGraph => gen.layers = <<{1, 3}, {2}, {4}>>

\* The four-task scenario was layered.
C20_Witness ==
    /\ gen.pc = "done"
    /\ dg = ScenarioGraph
    /\ gen.layers = <<{1, 3}, {2}, {4}>>

\* The graph without its non-blocking edges.
BlockingOnly(g) ==
    [g EXCEPT !.dependencies = {d \in g.dependencies : d.is_blocking}]

\* C21: validate_acyclic is true exactly when no task reaches itself through
\* blocking edges (a blocking self-dependency is a cycle), so the analysis
\* succeeds exactly then; removing the non-blocking edges changes neither its
\* result nor the outcome of the layering.
C21_AcyclicIffNoBlockingCycle ==
    /\ validate_acyclic(dg) <=> AcyclicBlocking(dg)
    /\ analysis.pc \in {"ok", "raised"} => (analysis.pc = "ok" <=> AcyclicBlocking(dg))
    /\ validate_acyclic(dg) <=> validate_acyclic(BlockingOnly(dg))
    /\ gen.pc = "done" =>
          gen.layers = GenerateExecutionLayers(dg.tasks, BlockingOnly(dg).dependencies)
    /\ gen.pc = "raised" =>
          GenerateExecutionLayers(dg.tasks, BlockingOnly(dg).dependencies) = <<"raised">>

\* A graph with a blocking edge and a non-blocking edge in the opposite
\* direction was accepted by the analysis and layered.
C21_Witness ==
    /\ analysis.pc = "ok"
    /\ gen.pc = "done"
    /\ \E d, e \in dg.dependencies :
          /\ d.is_blocking
          /\ ~e.is_blocking
          /\ e.from_task_id = d.to_task_id
          /\ e.to_task_id = d.from_task_id

\* The number of tasks over all generated layers.
TotalLayerTasks == Cardinality(UNION {gen.layers[i] : i \in 1..Len(gen.layers)})

MaxEstimate(layer) ==
    CHOOSE d \in {estimate[t] : t \in layer} : \A t \in layer : estimate[t] <= d

\* C23: for every task set, tasks without an estimate included, the execution
\* graph is created, every layer's duration is the largest estimate of its
\* tasks, and the total duration is the sum of the layer durations.
C23_LayerDurationIsMaxTotalIsSum ==
    /\ gen.pc \notin {"type_error", "graph_error"}
    /\ gen.pc = "graph" =>
          /\ Len(gen.durations) = Len(gen.layers)
          /\ \A i \in 1..Len(gen.layers) : gen.durations[i] = MaxEstimate(gen.layers[i])
          /\ gen.total_duration = SumSeq(gen.durations)

C3_CycleRaisesCircularDependencyError ==
    (~AcyclicBlocking(dg) /\ analysis.pc \in {"ok", "raised"}) =>
        /\ analysis.pc = "raised"
        /\ analysis.error = "CircularDependencyError"
        /\ gen.pc = "idle"

-----------------------------------------------------------------------------
(* Properties of a run (Spec) *)

Started(t) == tpc[t] # "new"
InFlight(t) == tpc[t] \in {"started", "executing", "validating", "recording"}
RunEnded == orch.pc \in {"finishing", "finished"}

\* C1: a task is never started before every task it has a blocking dependency
\* on, declared or inferred, has a completed task result recorded.
C1_StartedOnlyAfterBlockingDependencies ==
    \A t \in DOMAIN tpc :
        Started(t) =>
            \A v \in graph.tasks :
                <<t, v>> \in graph.blocking => results[v].status = "completed"

\* C4: the number of tasks a worker is executing at the same time never
\* exceeds max_concurrent_tasks, and its load factor stays within [0, 1].
C4_WorkerWithinCapacity ==
    \A a \in DOMAIN agents :
        /\ Cardinality(executing[a]) <= max_concurrent_tasks
        /\ LoadLeq(<<0, 1>>, get_load_factor(agents[a]))
        /\ LoadLeq(get_load_factor(agents[a]), <<1, 1>>)

SuccessfulTaskCount ==
    Cardinality({t \in graph.tasks : results[t].status = "completed"})
FailedTaskCount ==
    Cardinality({t \in graph.tasks : results[t].status = "failed"})

\* C5: when a run ended and was not cancelled, the session state is completed
\* exactly when the number of successful tasks is the graph's task count and
\* no task failed, and it is failed otherwise.
C5_TerminalStateVerdict ==
    (RunEnded /\ ~orch.cancelled) =>
        /\ session.state \in {"completed", "failed"}
        /\ (session.state = "completed") <=>
              (SuccessfulTaskCount = Cardinality(graph.tasks) /\ FailedTaskCount = 0)

\* A run of at least two layers ended completed without a cancel.
C5_Witness ==
    /\ orch.pc = "finished"
    /\ ~orch.cancelled
    /\ session.state = "completed"
    /\ Len(graph.layers) >= 2

\* C6: terminal states are absorbing: a session that is cancelled, completed
\* or failed keeps that state in every later step.
C6_TerminalStatesAbsorbing ==
    [][session.state \in {"cancelled", "completed", "failed"}
          => session'.state = session.state]_vars

\* The gates each drawn quality result does not pass, read off the values.
ExpectedFailedGates(q) ==
    CASE q = QualityPassed -> {}
      [] q = QualityLowCoverage -> {"tdd"}
      [] q = QualityInsecureUnlinted -> {"security", "code_quality"}
      [] q = QualitySlow -> {"performance"}

\* C7: with quality enforcement on, a task whose worker succeeded and whose
\* quality result has a gate that does not pass has a failed task result, is
\* in the failed set and not in the completed set, and its error detail has
\* type quality_gate_failure and lists exactly the gates that did not pass.
C7_QualityGateFailureDowngrades ==
    \A t \in DOMAIN results :
        /\ (/\ quality_enforcement
            /\ results[t].quality_validation \in QualityResults
            /\ ExpectedFailedGates(results[t].quality_validation) # {}) =>
               /\ results[t].status = "failed"
               /\ t \in session.failed_tasks
               /\ t \notin session.completed_tasks
               /\ results[t].error_details.type = "quality_gate_failure"
               /\ results[t].error_details.failed_gates # {}
               /\ results[t].error_details.failed_gates =
                     ExpectedFailedGates(results[t].quality_validation)
        /\ (/\ tpc[t] = "recording"
            /\ task_result[t].quality_validation \in QualityResults
            /\ ExpectedFailedGates(task_result[t].quality_validation) # {}) =>
               /\ task_result[t].status = "failed"
               /\ t \in session.failed_tasks
               /\ t \notin session.completed_tasks

\* Coverage 80 against 95: the failed result names tdd.
C7_Witness ==
    \E t \in DOMAIN results :
        /\ results[t].quality_validation = QualityLowCoverage
        /\ results[t].status = "failed"
        /\ results[t].error_details.failed_gates = {"tdd"}

\* C8: layers run in index order with a fan-in: while a task is started, every
\* task of every earlier layer has terminated, the started and unfinished
\* tasks all belong to the current layer, and no later layer has a started task.
C8_LayersInOrderWithFanIn ==
    \A t \in DOMAIN tpc :
        Started(t) =>
            /\ \A u \in DOMAIN tpc :
                  LayerIndexOf(graph, u) < LayerIndexOf(graph, t) => tpc[u] = "done"
            /\ LayerIndexOf(graph, t) <= session.current_layer
            /\ InFlight(t) => LayerIndexOf(graph, t) = session.current_layer

\* A task of the second layer is with its worker, the first layer held two tasks.
C8_Witness ==
    \E t \in DOMAIN tpc :
        /\ tpc[t] = "executing"
        /\ LayerIndexOf(graph, t) = 1
        /\ Cardinality(LayerTasks(graph, 0)) = 2

WorkerFailure(t) ==
    /\ tpc[t] \in {"started", "executing"}
    /\ tpc'[t] = "done"
    /\ results'[t].error_details.type \in {"ValueError", "TaskExecutionFailed"}

\* C9: a worker exception or a worker result with success = false gives a
\* failed result for that task only: the step changes no other task's position
\* or result and leaves the layer loop where it is; and the loop ends without
\* an orchestration error only after the last layer.
C9_TaskFailureStaysLocal ==
    [][/\ \A t \in DOMAIN tpc :
             WorkerFailure(t) =>
                /\ results'[t].status = "failed"
                /\ t \in session'.failed_tasks
                /\ \A u \in DOMAIN tpc \ {t} :
                      tpc'[u] = tpc[u] /\ results'[u] = results[u]
                /\ orch' = orch
                /\ session'.state = session.state
                /\ session'.current_layer = session.current_layer
       /\ (orch.pc = "gather" /\ orch'.pc = "finishing") =>
             session.current_layer + 1 = Len(graph.layers)]_vars

\* A task failed in its worker, a task of the same layer completed, and a task
\* of the next layer was started.
C9_Witness ==
    \E t, u, w \in DOMAIN tpc :
        /\ results[t].error_details.type = "TaskExecutionFailed"
        /\ results[u].status = "completed"
        /\ LayerIndexOf(graph, t) = LayerIndexOf(graph, u)
        /\ LayerIndexOf(graph, w) = LayerIndexOf(graph, t) + 1
        /\ Started(w)

\* At the start of the current layer a task of it has a declared dependency
\* that is not in the completed set.
UnsatisfiedAtLayerStart ==
    /\ orch.pc = "layer_start"
    /\ \E t \in graph.layers[session.current_layer + 1] :
          \E dep_id \in graph.depends_on[t] : dep_id \notin session.completed_tasks

NotLaunchedFrom(k) ==
    \A t \in DOMAIN tpc : LayerIndexOf(graph, t) >= k => tpc'[t] = "new"

-----------------------------------------------------------------------------
(* Properties of the pool and of cancel, pause and resume (Spec) *)

\* The workers that are idle with fewer current tasks than their capacity.
AvailableIn(pool) ==
    {a \in DOMAIN pool :
        /\ pool[a].state = "idle"
        /\ Cardinality(pool[a].current_tasks) < max_concurrent_tasks}

PoolExhaustionFailure(t) ==
    /\ tpc'[t] = "done"
    /\ results'[t].status = "failed"
    /\ results'[t].error_details.type = "AgentCoordinationError"

\* C11: the step of a task that calls acquire ends at once with the
\* pool-exhaustion failure exactly when no worker is available; a worker it
\* gets was available and no available worker had a lower load factor.
C11_AcquireBestAvailableOrFail ==
    [][\A t \in DOMAIN tpc :
          (tpc[t] = "started" /\ tpc'[t] # "started") =>
             /\ (AvailableIn(agents) = {}) <=> PoolExhaustionFailure(t)
             /\ tagent'[t] # 0 =>
                   /\ tagent'[t] \in AvailableIn(agents)
                   /\ tpc'[t] = "executing"
                   /\ \A b \in AvailableIn(agents) :
                         Cardinality(agents[tagent'[t]].current_tasks)
                            <= Cardinality(agents[b].current_tasks)]_vars

\* The second worker runs a task while another task of the layer failed on
\* pool exhaustion, in an initialized pool.
C11_Witness ==
    \E t, u \in DOMAIN tpc :
        /\ tpc[t] = "executing"
        /\ tagent[t] = 2
        /\ results[u].error_details.type = "AgentCoordinationError"
        /\ DOMAIN agents # {}

\* cancel_execution returns (the step that releases the execution lock).
CancelReturns == orch.lock = "cancel" /\ orch'.lock = "free"

\* C13: when cancel returns for an active session, no worker's session set
\* and no assignment entry refers to the session any more, and the session's
\* running-task set is empty.
C13_CancelReleasesEverything ==
    [][CancelReturns =>
          /\ session'.running_tasks = {}
          /\ SessionId \notin DOMAIN agent_assignment'
          /\ \A a \in DOMAIN agent_sessions' : SessionId \notin agent_sessions'[a]]_vars

\* The tasks whose execute_task call is in progress, over all workers.
ExecutingTasks(ex) == UNION {ex[a] : a \in DOMAIN ex}

CancelReturned == orch.cancelled /\ orch.lock = "free"

\* C14: after cancel has returned, no task that was not yet launched is
\* launched and the layer loop begins no further layer.
C14_CancelRevokesScheduling ==
    [][CancelReturned =>
          /\ \A t \in DOMAIN tpc : tpc[t] = "new" => tpc'[t] = "new"
          /\ session'.current_layer = session.current_layer]_vars

\* How far a task coroutine has come.
PositionRank(p) ==
    CASE p = "new" -> 0
      [] p = "started" -> 1
      [] p = "executing" -> 2
      [] p = "validating" -> 3
      [] p = "recording" -> 4
      [] p = "done" -> 5

\* C15: whatever pause and resume calls occur, a task never goes back to an
\* earlier position (it is launched once and handed to a worker at most once,
\* from the position right after its launch), and a task in the completed set
\* stays in it.
C15_PauseResumeKeepsProgress ==
    [][/\ \A t \in DOMAIN tpc :
             /\ PositionRank(tpc'[t]) >= PositionRank(tpc[t])
             /\ (tpc'[t] = "executing" /\ tpc[t] # "executing") => tpc[t] = "started"
             /\ (tpc'[t] = "started" /\ tpc[t] # "started") => tpc[t] = "new"
       /\ session.state # "none" =>
             session.completed_tasks \subseteq session'.completed_tasks]_vars

\* The session was paused in the middle of a layer and resumed: it is
\* executing again, the worker paused by the pause is still marked paused, a
\* task has completed and another task of the layer is in flight.
C15_Witness ==
    /\ session.state = "executing"
    /\ \E a \in DOMAIN agents : agents[a].state = "paused"
    /\ \E t, u \in DOMAIN tpc :
          /\ t \in session.completed_tasks
          /\ InFlight(u)
          /\ LayerIndexOf(graph, t) = LayerIndexOf(graph, u)

\* The workers the session has acquired and not yet released.
HeldWorkers == {tagent[t] : t \in DOMAIN tagent} \ {0}

\* C26: while only acquire and release act on the pool (no cancel, no session
\* cleanup), the session is in agent_sessions[w] exactly when it holds an
\* unreleased acquisition of w, and agent_assignment has an entry for the
\* session exactly when it holds some worker.
C26_PoolBookkeepingExact ==
    (~orch.cancelled /\ orch.pc # "finished") =>
        /\ \A w \in DOMAIN agent_sessions :
              SessionId \in agent_sessions[w] <=> w \in HeldWorkers
        /\ SessionId \in DOMAIN agent_assignment <=> HeldWorkers # {}

\* The results asyncio.gather handed to _process_layer_results for the
\* current layer.
CurrentLayerResults ==
    [t \in Launched(LayerTasks(graph, session.current_layer)) |-> results[t]]

\* C17: when a layer has been processed, a success rate below 80% ends the
\* layer loop (no later layer is started), and a rate of at least 80% moves
\* the loop to the next layer when there is one.
C17_LowSuccessRateHaltsLoop ==
    [][(orch.pc = "gather" /\ orch'.pc # "gather") =>
          IF LayerSuccess(CurrentLayerResults)
          THEN session.current_layer + 1 < Len(graph.layers)
                  => /\ orch'.pc = "layer_start"
                     /\ session'.current_layer = session.current_layer + 1
          ELSE orch'.pc = "finishing"]_vars

\* C18: the execution result of a run that ended holds a task result for
\* every task of the graph, and its successful, failed and cancelled counts
\* add up to the total task count.
C18_ResultAccountsForEveryTask ==
    RunEnded =>
        /\ orch.result.recorded = graph.tasks
        /\ orch.result.successful_tasks + orch.result.failed_tasks
              + orch.result.cancelled_tasks = orch.result.total_tasks

-----------------------------------------------------------------------------
(* execution/quality_gate_engine.py: validate_task_quality on its own
   (SpecQuality), one step per awaited sub-validation *)

\* Mutation: each sub-validation's status replaces the aggregate.
FoldStatusLastWins(overall_status, status) ==
    IF status = "failed" THEN "failed" ELSE "passed"

\* Lines 87-88, 94-95, 101-102 and 108-109:
\* `if <sub>_validation.status == FAILED: overall_status = FAILED`.
FoldStatus(overall_status, status) ==
    IF status = "failed" THEN "failed" ELSE overall_status

\* A sub-validation returned `status`; the aggregate is updated and the
\* coroutine moves to `next`.
SubValidated(gate, next, status) ==
    /\ validation.pc = gate
    /\ validation' = [validation EXCEPT
                         !.pc = next,
                         !.status[gate] = status,
                         !.overall_status = FoldStatus(@, status)]
    /\ UNCHANGED <<dg, analysis, gen, call, estimate, monitor, coord, depends_on, events,
      watch>>
    /\ UNCHANGED <<graph, session, orch, tpc, tagent, results, task_result,
                   agents, agent_assignment, agent_sessions, executing>>

\* validate_task_quality up to the first await: overall_status = PASSED.
ValidateTaskQuality ==
    /\ validation.pc = "idle"
    /\ validation' = [validation EXCEPT !.pc = "tdd", !.overall_status = "passed"]
    /\ UNCHANGED <<dg, analysis, gen, call, estimate, monitor, coord, depends_on, events,
      watch>>
    /\ UNCHANGED <<graph, session, orch, tpc, tagent, results, task_result,
                   agents, agent_assignment, agent_sessions, executing>>

ValidateTddCompliance(status) == SubValidated("tdd", "security", status)
ValidateSecurityRequirements(status) == SubValidated("security", "performance", status)
ValidatePerformanceRequirements(status) ==
    SubValidated("performance", "code_quality", status)
ValidateCodeQualityStandards(status) == SubValidated("code_quality", "result", status)

\* The QualityResult is built with overall_status and returned.
ReturnQualityResult ==
    /\ validation.pc = "result"
    /\ validation' = [validation EXCEPT !.pc = "returned"]
    /\ UNCHANGED <<dg, analysis, gen, call, estimate, monitor, coord, depends_on, events,
      watch>>
    /\ UNCHANGED <<graph, session, orch, tpc, tagent, results, task_result,
                   agents, agent_assignment, agent_sessions, executing>>

NextQuality ==
    \/ ValidateTaskQuality
    \/ \E status \in SubValidationStatuses : ValidateTddCompliance(status)
    \/ \E status \in SubValidationStatuses : ValidateSecurityRequirements(status)
    \/ \E status \in SubValidationStatuses : ValidatePerformanceRequirements(status)
    \/ \E status \in SubValidationStatuses : ValidateCodeQualityStandards(status)
    \/ ReturnQualityResult

SpecQuality == Init /\ [][NextQuality]_vars

\* C19: the overall status of a returned quality result is failed exactly
\* when at least one of the four sub-validations has status failed, and it is
\* passed otherwise.
C19_AggregateFailedIffSubFailed ==
    validation.pc = "returned" =>
        /\ validation.overall_status = "failed"
              <=> \E gate \in Gates : validation.status[gate] = "failed"
        /\ validation.overall_status \in {"passed", "failed"}

\* A result whose first sub-validation failed and whose last ended in error
\* was returned as failed.
C19_Witness ==
    /\ validation.pc = "returned"
    /\ validation.status["tdd"] = "failed"
    /\ validation.status["security"] = "passed"
    /\ validation.status["code_quality"] = "error"
    /\ validation.overall_status = "failed"

-----------------------------------------------------------------------------
(* pause_execution and resume_execution as whole calls (SpecControl): a run of
   one graph in which every pause or resume call is recorded with the value it
   returns, whatever the state of the session *)

MaxCalls == 3

\* pause_execution(session_id), any outcome.
PauseCall ==
    /\ orch.lock = "free"
    /\ call.n < MaxCalls
    /\ LET out == pause_execution(orch.active, session, agents, agent_assignment)
       IN /\ session' = out.session
          /\ agents' = out.agents
          /\ call' = [op |-> "pause", returned |-> out.returned, n |-> call.n + 1]
    /\ UNCHANGED <<dg, analysis, gen, graph, orch, tpc, tagent, results,
                   task_result, agent_assignment, agent_sessions, executing,
                   validation, estimate, monitor, coord, depends_on, events,
      watch>>

\* resume_execution(session_id), any outcome.
ResumeCall ==
    /\ orch.lock = "free"
    /\ call.n < MaxCalls
    /\ LET out == resume_execution(orch.active, session, agents)
       IN /\ session' = out.session
          /\ agents' = out.agents
          /\ call' = [op |-> "resume", returned |-> out.returned, n |-> call.n + 1]
    /\ UNCHANGED <<dg, analysis, gen, graph, orch, tpc, tagent, results,
                   task_result, agent_assignment, agent_sessions, executing,
                   validation, estimate, monitor, coord, depends_on, events,
      watch>>

\* The graph of the run: task 2 declares a dependency on task 1.
ControlGraph == MakeGraph({[from |-> 2, to |-> 1, declared |-> TRUE]})

NextControl ==
    \/ InitializeAgentPool
    \/ \E g \in {ControlGraph, EmptyGraph} : ExecuteImplementationPlan(g)
    \/ StartExecution
    \/ ExecuteLayer
    \/ \E t \in DOMAIN tpc : TaskAcquire(t)
    \/ \E t \in DOMAIN tpc : TaskWorkerReturns(t)
    \/ \E t \in DOMAIN tpc : \E q \in QualityResults : TaskValidated(t, q)
    \/ \E t \in DOMAIN tpc : TaskRecorded(t)
    \/ CollectLayer
    \/ CleanupSession
    \/ PauseCall
    \/ ResumeCall
    \/ CancelExecution
    \/ CancelCleanup

SpecControl == Init /\ [][NextControl]_vars

PauseCalled == call'.n > call.n /\ call'.op = "pause"
ResumeCalled == call'.n > call.n /\ call'.op = "resume"

\* C16: a pause call returns true exactly when the session is active and
\* Executing, and then only the state changes, to Paused; a resume call
\* returns true exactly when the session is active and Paused, and then only
\* the state changes, to Executing; a call that returns false (unknown
\* session, any other state) leaves the session and the pool unchanged.
C16_PauseResumeLegalOnly ==
    [][/\ PauseCalled =>
             /\ call'.returned <=> (orch.active /\ session.state = "executing")
             /\ call'.returned => session' = [session EXCEPT !.state = "paused"]
             /\ ~call'.returned => (session' = session /\ agents' = agents)
       /\ ResumeCalled =>
             /\ call'.returned <=> (orch.active /\ session.state = "paused")
             /\ call'.returned => session' = [session EXCEPT !.state = "executing"]
             /\ ~call'.returned => (session' = session /\ agents' = agents)]_vars

\* A pause succeeded, the next pause found the active session Paused and was
\* refused.
C16_Witness ==
    /\ call.op = "pause"
    /\ ~call.returned
    /\ call.n >= 2
    /\ orch.active
    /\ session.state = "paused"

-----------------------------------------------------------------------------
(* execution/execution_monitor.py on its own (SpecMonitor): the sampling loop
   of one session, alerts raised by samples and by failed-task events, their
   delivery to the registered callbacks, and stop_session_monitoring *)

MaxCallbacks == 2
MaxSamples == 2
MaxTaskEvents == 1

\* C29: while the active session is Paused the layer loop stands still: no
\* step changes the current layer index and no step launches a task.
C29_PausedLoopDoesNotAdvance ==
    [][(orch.active /\ session.state = "paused") =>
          /\ session'.current_layer = session.current_layer
          /\ \A t \in DOMAIN tpc \cap DOMAIN tpc' :
                tpc[t] = "new" => tpc'[t] = "new"]_vars

\* C30: every task has at most one task_started event and at most one of
\* task_completed and task_failed; a Task Result is recorded for a task only
\* when its coroutine returns, and then the task has been started once and
\* has exactly one of the two closing events, whichever way it ended (no
\* worker, a worker failure, a quality-gate rejection, success); a recorded
\* Task Result is never changed afterwards.
C30_OneResultOneClosingEvent ==
    /\ [](\A t \in DOMAIN tpc :
             /\ events[t].task_started <= 1
             /\ events[t].task_completed + events[t].task_failed
                   <= events[t].task_started
             /\ (results[t].status # "none") <=> (tpc[t] = "done")
             /\ tpc[t] = "done" =>
                   /\ events[t].task_started = 1
                   /\ events[t].task_completed + events[t].task_failed = 1
             /\ tpc[t] = "new" => events[t] = NoEvents)
    /\ [][\A t \in DOMAIN results :
             results[t].status # "none" => results'[t] = results[t]]_vars

\* In one run a task failed for lack of a worker and another was rejected by
\* the quality gates; each has its result and one task_failed event.
C30_Witness ==
    \E t, u \in DOMAIN tpc :
        /\ tpc[t] = "done" /\ tpc[u] = "done"
        /\ results[t].error_details.type = "AgentCoordinationError"
        /\ results[u].error_details.type = "quality_gate_failure"
        /\ events[t] = [task_started |-> 1, task_completed |-> 0, task_failed |-> 1]
        /\ events[u] = [task_started |-> 1, task_completed |-> 0, task_failed |-> 1]

\* C35: the completed, failed and running sets are pairwise disjoint and hold
\* only tasks of the graph; a task with a recorded result is in exactly one of
\* completed and failed; when the fan-in of the current layer has finished,
\* and when the layer loop has ended, the running set is empty.
C35_SessionSetsPartition ==
    /\ session.completed_tasks \cap session.failed_tasks = {}
    /\ session.completed_tasks \cap session.running_tasks = {}
    /\ session.failed_tasks \cap session.running_tasks = {}
    /\ (session.completed_tasks \cup session.failed_tasks \cup session.running_tasks)
          \subseteq graph.tasks
    /\ \A t \in DOMAIN results :
          results[t].status # "none" =>
             /\ t \in session.completed_tasks \cup session.failed_tasks
             /\ (t \in session.completed_tasks) <=> (results[t].status = "completed")
    /\ (orch.pc = "gather" /\ FanInComplete(LayerTasks(graph, session.current_layer)))
          => session.running_tasks = {}
    /\ orch.pc \in {"finishing", "finished"} => session.running_tasks = {}

\* The fan-in of a layer of two tasks has finished with one task completed and
\* one failed.
C35_Witness ==
    /\ orch.pc = "gather"
    /\ FanInComplete(LayerTasks(graph, session.current_layer))
    /\ Cardinality(LayerTasks(graph, session.current_layer)) = 2
    /\ session.completed_tasks # {}
    /\ session.failed_tasks # {}
    /\ session.running_tasks = {}

\* execute_implementation_plan has returned (pc "finished") or raised (pc
\* "raised").
PlanEnded == orch.pc \in {"finished", "raised"}

\* C36: whenever execute_implementation_plan has returned or raised, for every
\* graph, also one with no task and no layer, the session is out of the
\* orchestrator's active sessions, the pool keeps no assignment and no
\* agent_sessions entry of it, and the monitor's sampling loop is stopped.
C36_NoSessionLeak ==
    PlanEnded =>
        /\ ~orch.active
        /\ SessionId \notin DOMAIN agent_assignment
        /\ \A a \in DOMAIN agent_sessions : SessionId \notin agent_sessions[a]
        /\ watch.loop # "running"
        /\ ~watch.active

\* C37: a worker put into state Paused by a pause of the session is Idle
\* again once the session has terminated: when execute_implementation_plan has
\* returned and no cancel is pending, a state that no later step of the run
\* changes, no worker of the pool is Paused.
C37_NoWorkerLostToPause ==
    (orch.pc = "finished" /\ orch.lock = "free") =>
        \A a \in DOMAIN agents : agents[a].state # "paused"

nonMonitorVars == <<dg, analysis, gen, graph, session, orch, tpc, tagent, results,
                    task_result, agents, agent_assignment, agent_sessions,
                    executing, call, validation, estimate, coord, depends_on, events,
      watch>>

\* _check_metrics_alerts: the alerts a sample can raise, in the order of the
\* three threshold tests.
MetricAlerts == <<"low_completion_rate", "high_failure_rate", "low_agent_utilization">>

\* _fire_alert for the alerts of `queue` in turn, up to the first callback
\* that is awaited: with no callback registered every alert is fired without
\* suspending.
FireFrom(queue, registered, delivered) ==
    IF queue = <<>> \/ registered = 0
    THEN [queue |-> <<>>, cb |-> 0, delivered |-> delivered]
    ELSE [queue |-> queue, cb |-> 1, delivered |-> delivered \cup {<<Head(queue), 1>>}]

\* _fire_alert, lines 477-481, after the awaited callback returned or raised:
\* `except Exception` logs, and the for loop goes to the next callback, then
\* to the next alert to fire.
FireNext(d, registered, delivered, outcome) ==
    IF outcome \in {"returns", "raises"} /\ d.cb < registered
    THEN [queue |-> d.queue, cb |-> d.cb + 1,
          delivered |-> delivered \cup {<<Head(d.queue), d.cb + 1>>}]
    ELSE FireFrom(Tail(d.queue), registered, delivered)

\* register_alert_callback
RegisterAlertCallback ==
    /\ monitor.registered < MaxCallbacks
    /\ monitor' = [monitor EXCEPT !.registered = @ + 1]
    /\ UNCHANGED nonMonitorVars

\* start_session_monitoring: the monitoring data and the monitoring task.
StartSessionMonitoring ==
    /\ monitor.loop.pc = "none"
    /\ monitor' = [monitor EXCEPT !.tracked = TRUE, !.is_active = TRUE,
                                  !.loop.pc = "created"]
    /\ UNCHANGED nonMonitorVars

\* One iteration of _monitor_session_loop up to its first suspension: the
\* metrics, the alerts `raised` among the three threshold alerts appended to
\* the session's alerts, then _fire_alert for each, or asyncio.sleep.
MonitorSample(raised) ==
    /\ monitor.loop.pc \in {"created", "sleep"}
    /\ IF ~monitor.is_active
       THEN monitor' = [monitor EXCEPT !.loop.pc = "ended"]
       ELSE /\ monitor.samples < MaxSamples
            /\ LET new == SelectSeq(MetricAlerts, LAMBDA a : a \in raised)
                   n == Len(monitor.alerts)
                   ids == [i \in 1..Len(new) |-> n + i]
                   f == FireFrom(ids, monitor.registered, monitor.delivered)
               IN monitor' = [monitor EXCEPT
                     !.samples = @ + 1,
                     !.alerts = @ \o [i \in 1..Len(new) |->
                                         [type |-> new[i], due |-> monitor.registered]],
                     !.delivered = f.delivered,
                     !.loop = [pc |-> IF f.cb = 0 THEN "sleep" ELSE "callback",
                               queue |-> f.queue, cb |-> f.cb]]
    /\ UNCHANGED nonMonitorVars

\* The callback the sampling task awaits returned or raised.
LoopCallbackEnds(outcome) ==
    /\ monitor.loop.pc = "callback"
    /\ LET f == FireNext(monitor.loop, monitor.registered, monitor.delivered, outcome)
       IN monitor' = [monitor EXCEPT
             !.delivered = f.delivered,
             !.loop = [pc |-> IF f.cb = 0 THEN "sleep" ELSE "callback",
                       queue |-> f.queue, cb |-> f.cb]]
    /\ UNCHANGED nonMonitorVars

\* record_task_event(session_id, task_id, "failed"): the task_failure alert is
\* appended and fired in the caller's coroutine.
RecordTaskEvent ==
    /\ monitor.tracked
    /\ monitor.event.pc = "idle"
    /\ monitor.events < MaxTaskEvents
    /\ LET id == Len(monitor.alerts) + 1
           f == FireFrom(<<id>>, monitor.registered, monitor.delivered)
       IN monitor' = [monitor EXCEPT
             !.events = @ + 1,
             !.alerts = Append(@, [type |-> "task_failure", due |-> monitor.registered]),
             !.delivered = f.delivered,
             !.event = [pc |-> IF f.cb = 0 THEN "idle" ELSE "callback",
                        queue |-> f.queue, cb |-> f.cb]]
    /\ UNCHANGED nonMonitorVars

\* The callback record_task_event awaits returned or raised.
EventCallbackEnds(outcome) ==
    /\ monitor.event.pc = "callback"
    /\ LET f == FireNext(monitor.event, monitor.registered, monitor.delivered, outcome)
       IN monitor' = [monitor EXCEPT
             !.delivered = f.delivered,
             !.event = [pc |-> IF f.cb = 0 THEN "idle" ELSE "callback",
                        queue |-> f.queue, cb |-> f.cb]]
    /\ UNCHANGED nonMonitorVars

\* stop_session_monitoring: the monitoring task is cancelled and awaited
\* (CancelledError is raised at the await the task is suspended in, passes
\* _fire_alert's `except Exception` and ends the loop at line 298), then the
\* session is marked inactive and deleted from active_sessions.
StopSessionMonitoring ==
    /\ monitor.tracked
    /\ monitor' = [monitor EXCEPT
          !.tracked = FALSE,
          !.is_active = FALSE,
          !.loop = [pc |-> "cancelled", queue |-> <<>>, cb |-> 0]]
    /\ UNCHANGED nonMonitorVars

NextMonitor ==
    \/ RegisterAlertCallback
    \/ StartSessionMonitoring
    \/ \E raised \in SUBSET {MetricAlerts[i] : i \in 1..Len(MetricAlerts)} :
          MonitorSample(raised)
    \/ \E outcome \in {"returns", "raises"} : LoopCallbackEnds(outcome)
    \/ RecordTaskEvent
    \/ \E outcome \in {"returns", "raises"} : EventCallbackEnds(outcome)
    \/ StopSessionMonitoring

SpecMonitor == Init /\ [][NextMonitor]_vars

\* The alerts whose delivery is under way or still to come.
PendingAlerts ==
    {monitor.loop.queue[i] : i \in 1..Len(monitor.loop.queue)}
        \cup {monitor.event.queue[i] : i \in 1..Len(monitor.event.queue)}

\* C24: every alert in the session's alert log whose delivery is not under way
\* has been delivered to every callback that was registered when it was
\* raised, whatever the callbacks did.
C24_AlertsReachEveryCallback ==
    \A i \in 1..Len(monitor.alerts) :
        i \in PendingAlerts
           \/ \A k \in 1..monitor.alerts[i].due : <<i, k>> \in monitor.delivered

-----------------------------------------------------------------------------
(* execution/agent_coordinator.py: acquire_agent and release_agent called by
   concurrent coroutines of two sessions (SpecLock).  Every await inside the
   two methods is taken as a point where another coroutine may run. *)

LockSessions == {"s1", "s2"}

lockFrame == <<dg, analysis, gen, graph, session, orch, tpc, tagent, results,
               task_result, executing, call, validation, estimate, monitor,
               depends_on, events,
      watch>>

\* initialize_agent_pool before any caller
InitializeLockPool ==
    /\ DOMAIN agents = {}
    /\ agents' = [a \in AgentIds |-> [state |-> "idle", current_tasks |-> {}]]
    /\ agent_sessions' = [a \in AgentIds |-> {}]
    /\ UNCHANGED <<agent_assignment, coord>>
    /\ UNCHANGED lockFrame

\* A coroutine of session s calls acquire_agent(s) and reaches `async with`.
AcquireCall(p, s) ==
    /\ coord.callers[p].pc = "idle"
    /\ coord' = [coord EXCEPT !.callers[p] = [pc |-> "acq_wait", session |-> s,
                                              agent |-> 0]]
    /\ UNCHANGED <<agents, agent_assignment, agent_sessions>>
    /\ UNCHANGED lockFrame

\* `async with self._coordination_lock` is entered, by acquire_agent or by
\* release_agent.
LockEnter(p) ==
    /\ coord.callers[p].pc \in {"acq_wait", "rel_wait"}
    /\ LockAvailable(coord.lock)
    /\ coord' = [coord EXCEPT
                    !.lock = p,
                    !.callers[p].pc = IF @ = "acq_wait" THEN "acq_find" ELSE "rel_body"]
    /\ UNCHANGED <<agents, agent_assignment, agent_sessions>>
    /\ UNCHANGED lockFrame

\* acquire_agent, lines 430-433: await _find_best_agent(); with no agent the
\* error is raised and the lock is left.
AcquireFind(p) ==
    /\ coord.callers[p].pc = "acq_find"
    /\ LET best_agent == FindBestAgent(agents)
       IN IF best_agent = 0
          THEN coord' = [coord EXCEPT
                            !.lock = 0,
                            !.callers[p] = [pc |-> "idle", session |-> "none",
                                            agent |-> 0]]
          ELSE coord' = [coord EXCEPT !.callers[p].pc = "acq_record",
                                      !.callers[p].agent = best_agent]
    /\ UNCHANGED <<agents, agent_assignment, agent_sessions>>
    /\ UNCHANGED lockFrame

\* acquire_agent, lines 435-440: the assignment is recorded, the agent
\* returned, the lock left.
AcquireRecord(p) ==
    /\ coord.callers[p].pc = "acq_record"
    /\ LET c == coord.callers[p]
       IN /\ agent_assignment' = Put(agent_assignment, c.session, c.agent)
          /\ agent_sessions' = AssignedSessions(agent_sessions, c.agent, c.session)
    /\ coord' = [coord EXCEPT !.lock = 0, !.callers[p].pc = "holding"]
    /\ UNCHANGED agents
    /\ UNCHANGED lockFrame

\* The caller's execute_task on the agent it holds: BUSY with the task, then
\* the finally clause.
CallerWorks(p) ==
    /\ coord.callers[p].pc \in {"holding", "working"}
    /\ LET a == coord.callers[p].agent
       IN IF coord.callers[p].pc = "holding"
          THEN /\ agents' = [agents EXCEPT ![a].state = "busy",
                                           ![a].current_tasks = @ \cup {p}]
               /\ coord' = [coord EXCEPT !.callers[p].pc = "working"]
          ELSE /\ agents' = WorkerFinished(agents, a, p)
               /\ coord' = [coord EXCEPT !.callers[p].pc = "worked"]
    /\ UNCHANGED <<agent_assignment, agent_sessions>>
    /\ UNCHANGED lockFrame

\* The caller calls release_agent(agent_id, session_id) and reaches
\* `async with`.
ReleaseCall(p) ==
    /\ coord.callers[p].pc \in {"holding", "worked"}
    /\ coord' = [coord EXCEPT !.callers[p].pc = "rel_wait"]
    /\ UNCHANGED <<agents, agent_assignment, agent_sessions>>
    /\ UNCHANGED lockFrame

\* release_agent, lines 451-457, inside the lock.
ReleaseBody(p) ==
    /\ coord.callers[p].pc = "rel_body"
    /\ LET c == coord.callers[p]
       IN /\ agent_sessions' = ReleasedSessions(agent_sessions, c.agent, c.session)
          /\ agent_assignment' = Del(agent_assignment, c.session)
    /\ coord' = [coord EXCEPT
                    !.lock = 0,
                    !.callers[p] = [pc |-> "idle", session |-> "none", agent |-> 0]]
    /\ UNCHANGED agents
    /\ UNCHANGED lockFrame

NextLock ==
    \/ InitializeLockPool
    \/ \E p \in Callers : \E s \in LockSessions : AcquireCall(p, s)
    \/ \E p \in Callers : LockEnter(p)
    \/ \E p \in Callers : AcquireFind(p)
    \/ \E p \in Callers : AcquireRecord(p)
    \/ \E p \in Callers : CallerWorks(p)
    \/ \E p \in Callers : ReleaseCall(p)
    \/ \E p \in Callers : ReleaseBody(p)

SpecLock == Init /\ [][NextLock]_vars

\* The callers inside `async with self._coordination_lock`.
InCriticalSection ==
    {p \in Callers : coord.callers[p].pc \in {"acq_find", "acq_record", "rel_body"}}

\* C27: at most one acquire or release is inside the lock at any time, and
\* while an acquire has chosen its worker and not yet recorded the assignment
\* no step of another caller changes agent_assignment or agent_sessions.
C27_AcquireReleaseInsideOneLock ==
    /\ [](Cardinality(InCriticalSection) <= 1)
    /\ [][\A p \in Callers :
             (coord.callers[p].pc = "acq_record" /\ coord'.callers[p].pc = "acq_record")
                => /\ agent_assignment' = agent_assignment
                   /\ agent_sessions' = agent_sessions
                   /\ InCriticalSection' = {p}]_vars

\* One caller has chosen its worker inside the lock while the other waits at
\* the lock to release a worker it holds.
C27_Witness ==
    \E p, q \in Callers :
        /\ coord.callers[p].pc = "acq_record"
        /\ coord.callers[q].pc = "rel_wait"
        /\ coord.lock = p

-----------------------------------------------------------------------------
(* analysis/dependency_analyzer.py: analyze_task_dependencies from the tasks'
   declared dependencies to the validated graph (SpecExtract) *)

MaxDeclared == 2
MaxImplicit == 1

\* The declared dependencies: per task a set of ids, known or not, with at
\* most MaxDeclared declarations in all.
DeclaredDependencies(tasks) ==
    {f \in [tasks -> SUBSET (0..NumTasks)] :
        Cardinality({<<t, d>> \in tasks \X (0..NumTasks) : d \in f[t]}) <= MaxDeclared}

\* Mutation: the unknown ids are not skipped.
ExtractExplicitDependenciesUnchecked(tasks, declared) ==
    {[from_task_id |-> t, to_task_id |-> dep_id, is_blocking |-> TRUE] :
        <<t, dep_id>> \in {p \in tasks \X (0..NumTasks) : p[2] \in declared[p[1]]}}

\* _extract_explicit_dependencies: one blocking edge per declared id that is
\* the id of a task of the list; the others are logged and skipped.
ExtractExplicitDependencies(tasks, declared) ==
    {[from_task_id |-> t, to_task_id |-> dep_id, is_blocking |-> TRUE] :
        <<t, dep_id>> \in {p \in tasks \X (0..NumTasks) :
                              p[2] \in declared[p[1]] /\ p[2] \in tasks}}

\* _analyze_implicit_dependencies: the edges the three heuristics can produce,
\* all between two different tasks of the list (consumer and creator of a
\* file, two keyword categories, two architectural phases).
ImplicitDependencies(tasks) ==
    {d \in TaskDependency :
        d.from_task_id \in tasks /\ d.to_task_id \in tasks
        /\ d.from_task_id # d.to_task_id}

InitExtract ==
    /\ \E n \in 2..NumTasks :
          /\ dg = [tasks |-> 1..n, dependencies |-> {}]
          /\ depends_on \in DeclaredDependencies(1..n)
    /\ estimate = [t \in dg.tasks |-> t]
    /\ analysis = [pc |-> "extract", error |-> "none"]
    /\ gen = GenIdle
    /\ RunIdle(TRUE)

\* analyze_task_dependencies, lines 63-64
ExtractExplicit ==
    /\ analysis.pc = "extract"
    /\ dg' = [dg EXCEPT !.dependencies = ExtractExplicitDependencies(dg.tasks, depends_on)]
    /\ analysis' = [analysis EXCEPT !.pc = "implicit"]
    /\ UNCHANGED gen
    /\ UNCHANGED runVars

\* analyze_task_dependencies, lines 66-76: the implicit edges are added and
\* the DependencyGraph is created.
AnalyzeImplicit ==
    /\ analysis.pc = "implicit"
    /\ \E implicit_dependencies \in KSubsets(ImplicitDependencies(dg.tasks), MaxImplicit) :
          dg' = [dg EXCEPT !.dependencies = @ \cup implicit_dependencies]
    /\ analysis' = [analysis EXCEPT !.pc = "input"]
    /\ UNCHANGED gen
    /\ UNCHANGED runVars

NextExtract ==
    \/ ExtractExplicit
    \/ AnalyzeImplicit
    \/ NextLayer

SpecExtract == InitExtract /\ [][NextExtract]_vars

\* The declarations of task t on ids that no task of the list has.
UnknownDeclared(t) == depends_on[t] \ dg.tasks

-----------------------------------------------------------------------------
(* execution/execution_monitor.py, the session's monitoring data (SpecWatch):
   one session of NumTasks tasks is monitored; task events are recorded
   through record_task_event, the long-running checks wake up, the sampling
   loop appends to metrics_history, stop_session_monitoring is called, also
   twice and concurrently.  The task_failure alert of a "failed" event and the
   delivery to callbacks are in SpecMonitor. *)

MaxRecorded == 3
MaxWatchSamples == 3
MaxStops == 2

\* deque(maxlen=100) of SessionMonitoringData.metrics_history, scaled down.
HistoryMaxLen == 2

watchFrame == <<dg, analysis, gen, graph, session, orch, tpc, tagent, results,
                task_result, agents, agent_assignment, agent_sessions, executing,
                call, validation, estimate, monitor, coord, depends_on, events>>

StartWatch ==
    /\ watch.global.total_sessions = 0
    /\ watch' = StartedWatch(watch)
    /\ UNCHANGED watchFrame

\* record_task_event(session_id, task_id, event_type)
RecordEvent(t, event_type) ==
    /\ watch.recorded < MaxRecorded
    /\ IF ~watch.active
       THEN watch' = [watch EXCEPT !.recorded = @ + 1]
       ELSE watch' = [watch EXCEPT
                         !.recorded = @ + 1,
                         !.timeline[t] = @ \cup {event_type},
                         !.checks[t] = IF event_type = "started" THEN @ + 1 ELSE @]
    /\ UNCHANGED watchFrame

\* _check_long_running_task after its sleep.
CheckLongRunningTask(t) ==
    /\ watch.checks[t] > 0
    /\ watch' = [watch EXCEPT
                    !.checks[t] = @ - 1,
                    !.long_running[t] =
                        IF watch.active /\ TaskStillRunning(watch.timeline[t])
                        THEN @ + 1 ELSE @]
    /\ UNCHANGED watchFrame

\* One iteration of _monitor_session_loop: the metrics are appended to the
\* bounded history.
WatchSample ==
    /\ watch.loop = "running"
    /\ watch.samples < MaxWatchSamples
    /\ watch' = [watch EXCEPT
                    !.samples = @ + 1,
                    !.history = IF @ < HistoryMaxLen THEN @ + 1 ELSE HistoryMaxLen]
    /\ UNCHANGED watchFrame

StopWatchCall ==
    /\ watch.stops < MaxStops
    /\ watch' = [StopBegun(watch, NumTasks) EXCEPT !.stops = @ + 1]
    /\ UNCHANGED watchFrame

StopWatchResumes ==
    /\ watch.stopping > 0
    /\ watch' = StopResumed(watch, NumTasks)
    /\ UNCHANGED watchFrame

NextWatch ==
    \/ StartWatch
    \/ \E t \in Tasks : \E event_type \in TaskEventTypes : RecordEvent(t, event_type)
    \/ \E t \in Tasks : CheckLongRunningTask(t)
    \/ WatchSample
    \/ StopWatchCall
    \/ StopWatchResumes

SpecWatch == Init /\ [][NextWatch]_vars

\* C31: every recorded start event schedules one check; a check that wakes up
\* raises exactly one long_running_task alert when the session is still
\* monitored and the task has a started event and neither a completed nor a
\* failed one, and none otherwise; nothing else raises such an alert.
C31_LongRunningAlertOncePerStart ==
    [][\A t \in Tasks :
          /\ watch'.checks[t] > watch.checks[t] =>
                /\ watch'.checks[t] = watch.checks[t] + 1
                /\ watch.active /\ watch'.recorded > watch.recorded
                /\ "started" \in watch'.timeline[t]
          /\ "started" \in watch'.timeline[t] \ watch.timeline[t] =>
                watch'.checks[t] = watch.checks[t] + 1
          /\ watch'.checks[t] < watch.checks[t] =>
                /\ watch'.checks[t] = watch.checks[t] - 1
                /\ watch'.long_running[t] - watch.long_running[t] =
                      (IF /\ watch.active
                          /\ "started" \in watch.timeline[t]
                          /\ "completed" \notin watch.timeline[t]
                          /\ "failed" \notin watch.timeline[t]
                       THEN 1 ELSE 0)
          /\ watch'.checks[t] >= watch.checks[t] =>
                watch'.long_running[t] = watch.long_running[t]]_vars

\* A check woke up on a task still running and raised its alert; another
\* check woke up after the task had failed and raised none.
C31_Witness ==
    \E t, u \in Tasks :
        /\ t # u
        /\ watch.long_running[t] = 1 /\ watch.checks[t] = 0
        /\ watch.timeline[t] = {"started"}
        /\ watch.long_running[u] = 0 /\ watch.checks[u] = 0
        /\ watch.timeline[u] = {"started", "failed"}

\* The sessions the monitor has finalized.
FinalizedSessions == watch.global.successful_sessions + watch.global.failed_sessions

\* C32: a monitored session is finalized exactly once, by the stop that finds
\* it in active_sessions: that step increments exactly one of
\* successful_sessions and failed_sessions, leaves the sampling loop stopped
\* and the monitoring data (timelines, bounded history) discarded; a stop of a
\* session already finalized changes nothing; the history never exceeds its
\* bound and successful_sessions + failed_sessions never exceeds
\* total_sessions.
C32_SessionFinalizedOnce ==
    /\ [](/\ FinalizedSessions <= watch.global.total_sessions
          /\ watch.history <= HistoryMaxLen
          /\ (FinalizedSessions = 1)
                <=> (watch.global.total_sessions = 1 /\ ~watch.active)
          /\ FinalizedSessions = 1 =>
                /\ watch.loop # "running"
                /\ ~watch.in_tasks
                /\ watch.history = 0
                /\ \A t \in Tasks : watch.timeline[t] = {})
    /\ [][/\ FinalizedSessions' # FinalizedSessions =>
               /\ watch.active /\ ~watch'.active
               /\ \/ /\ watch'.global.successful_sessions
                           = watch.global.successful_sessions + 1
                     /\ watch'.global.failed_sessions = watch.global.failed_sessions
                  \/ /\ watch'.global.failed_sessions
                           = watch.global.failed_sessions + 1
                     /\ watch'.global.successful_sessions
                           = watch.global.successful_sessions
          /\ (FinalizedSessions = 1
                /\ (watch'.stops # watch.stops \/ watch'.stopping # watch.stopping)) =>
               /\ watch'.global = watch.global
               /\ watch'.active = watch.active
               /\ watch'.loop = watch.loop
               /\ watch'.history = watch.history]_vars

\* Two stops have run to their end on a session that was sampled beyond the
\* history bound and had every task completed: one successful session.
C32_Witness ==
    /\ watch.stops = 2 /\ watch.stopping = 0
    /\ watch.samples > HistoryMaxLen
    /\ watch.global.successful_sessions = 1
    /\ watch.global.failed_sessions = 0
    /\ watch.global.total_tasks_executed = NumTasks

-----------------------------------------------------------------------------
(* execution/quality_gate_engine.py: _validate_performance_requirements as a
   function of what it reads (SpecPerformance) *)

\* quality_config["performance"], lines 664-665
max_execution_time_seconds == 300
max_memory_usage_mb == 500

\* task_result.execution_duration_seconds; 0 stands for None and for 0.0,
\* which line 308 treats alike.
Durations ==
    {0, 1, max_execution_time_seconds - 1, max_execution_time_seconds,
     max_execution_time_seconds + 1, 2 * max_execution_time_seconds}

\* benchmark_results["memory_usage"]
MemoryUsages ==
    {0, 45, max_memory_usage_mb - 1, max_memory_usage_mb, max_memory_usage_mb + 1}

\* _validate_performance_requirements.  `benchmark_execution`: the task's
\* performance_requirements ask for benchmarks; `benchmark_results`: the
\* benchmark run returned results.  With benchmarks run and no execution time
\* the comparison of line 326 is `None > 300`: TypeError, and the except
\* branch returns status ERROR with performance_requirements_met at its
\* default, False.
validate_performance_requirements(benchmark_execution, duration, benchmark_results, memory_usage) ==
    IF benchmark_execution /\ benchmark_results
    THEN IF duration = 0
         THEN [status |-> "error", benchmark_executed |-> FALSE,
               performance_requirements_met |-> FALSE]
         ELSE LET slow == duration > max_execution_time_seconds
                  big == memory_usage # 0 /\ memory_usage > max_memory_usage_mb
              IN [status |-> IF slow \/ big THEN "failed" ELSE "passed",
                  benchmark_executed |-> TRUE,
                  performance_requirements_met |-> ~(slow \/ big)]
    ELSE [status |-> "passed", benchmark_executed |-> FALSE,
          performance_requirements_met |-> TRUE]

\* One call of _validate_performance_requirements on drawn measurements.
MeasurePerformance ==
    /\ validation.pc = "idle"
    /\ \E benchmark_execution, benchmark_results \in BOOLEAN :
       \E duration \in Durations :
       \E memory_usage \in IF benchmark_results THEN MemoryUsages ELSE {0} :
          LET r == validate_performance_requirements(
                      benchmark_execution, duration, benchmark_results, memory_usage)
          IN validation' = [validation EXCEPT
                !.pc = "measured",
                !.performance = [benchmark_execution |-> benchmark_execution,
                                 duration |-> duration,
                                 benchmark_results |-> benchmark_results,
                                 memory_usage |-> memory_usage,
                                 status |-> r.status,
                                 benchmark_executed |-> r.benchmark_executed,
                                 performance_requirements_met |->
                                     r.performance_requirements_met]]
    /\ UNCHANGED <<dg, analysis, gen, call, estimate, monitor, coord, depends_on,
                   events, watch>>
    /\ UNCHANGED <<graph, session, orch, tpc, tagent, results, task_result,
                   agents, agent_assignment, agent_sessions, executing>>

\* validate_task_quality with the measured performance validation and the
\* three other sub-validations passing with their requirements met (lines
\* 80-109), then _execute_single_task, lines 451-471, on a task whose worker
\* reported success: the status the task result gets.
DecideTaskStatus ==
    /\ validation.pc = "measured"
    /\ LET p == validation.performance
           q == [QualityPassed EXCEPT
                    !.performance_validation.performance_requirements_met =
                        p.performance_requirements_met]
       IN validation' = [validation EXCEPT
             !.pc = "decided",
             !.status = [gate \in Gates |->
                            IF gate = "performance" THEN p.status ELSE "passed"],
             !.overall_status =
                 FoldStatus(FoldStatus(FoldStatus(FoldStatus("passed", "passed"),
                                                  "passed"), p.status), "passed"),
             !.task_status = QualityCheckedResult(q).status]
    /\ UNCHANGED <<dg, analysis, gen, call, estimate, monitor, coord, depends_on,
                   events, watch>>
    /\ UNCHANGED <<graph, session, orch, tpc, tagent, results, task_result,
                   agents, agent_assignment, agent_sessions, executing>>

NextPerformance ==
    \/ MeasurePerformance
    \/ DecideTaskStatus

SpecPerformance == Init /\ [][NextPerformance]_vars

\* C33: the performance requirements count as not met exactly when
\* benchmarks were requested and the execution time exceeds the ceiling or
\* the memory exceeds the ceiling; an execution time that was never measured
\* is within the ceiling.  (Stated for the calls in which a requested
\* benchmark run returned its results.)
C33_PerformanceGateFailsOnlyOverCeilings ==
    (/\ validation.pc = "measured"
     /\ validation.performance.benchmark_execution
            => validation.performance.benchmark_results) =>
        LET p == validation.performance
        IN ~p.performance_requirements_met
              <=> /\ p.benchmark_execution
                  /\ \/ p.duration > max_execution_time_seconds
                     \/ p.memory_usage > max_memory_usage_mb

\* C34: a task whose worker reported success is downgraded to failed exactly
\* when the aggregate status of its quality result is failed; a
\* sub-validation that ends in error never causes a downgrade.
C34_DowngradeIffAggregateFailed ==
    validation.pc = "decided" =>
        /\ validation.task_status = "failed" <=> validation.overall_status = "failed"
        /\ (\A gate \in Gates : validation.status[gate] \in {"passed", "error"})
              => validation.task_status = "completed"

-----------------------------------------------------------------------------
(* execution/agent_coordinator.py: two sessions share one pool (SpecShare).
   The coroutines of SpecLock acquire, work and release for sessions s1 and
   s2, while pause_all_tasks and cancel_all_tasks are called for either
   session.  `call` records the last of these calls. *)

shareFrame == <<dg, analysis, gen, graph, session, orch, tpc, tagent, results,
                task_result, executing, validation, estimate, monitor,
                depends_on, events, watch, agent_assignment, agent_sessions,
                coord>>

\* pause_all_tasks(session_id), called by pause_execution
PauseAllTasks(s) ==
    /\ DOMAIN agents # {}
    /\ call.n < MaxCalls
    /\ agents' = PausedAgents(agents, agent_assignment, s)
    /\ call' = [op |-> "pause", returned |-> TRUE, n |-> call.n + 1, session |-> s]
    /\ UNCHANGED shareFrame

\* cancel_all_tasks(session_id), called by cancel_execution
CancelAllTasks(s) ==
    /\ DOMAIN agents # {}
    /\ call.n < MaxCalls
    /\ agents' = CancelledAgents(agents, agent_assignment, s)
    /\ call' = [op |-> "cancel", returned |-> TRUE, n |-> call.n + 1, session |-> s]
    /\ UNCHANGED shareFrame

NextShare ==
    \/ NextLock
    \/ \E s \in LockSessions : PauseAllTasks(s)
    \/ \E s \in LockSessions : CancelAllTasks(s)

SpecShare == Init /\ [][NextShare]_vars

\* The workers on which a task of a session other than s is executing.
WorkersOfOthers(s) ==
    {coord.callers[p].agent :
        p \in {q \in Callers : /\ coord.callers[q].pc = "working"
                                /\ coord.callers[q].session # s}}

\* C38: a pause or a cancel of session A leaves every worker that is executing
\* a task of another session B as it was: its state and its current tasks are
\* unchanged, and the call does not make it available.
C38_SessionsIsolated ==
    [][call'.n > call.n =>
          \A a \in WorkersOfOthers(call'.session) :
              /\ agents'[a] = agents[a]
              /\ is_available(agents'[a]) => is_available(agents[a])]_vars

-----------------------------------------------------------------------------
(* execution/parallel_orchestrator.py: runs that are neither paused nor
   cancelled (SpecRun) *)

NextRun ==
    \/ InitializeAgentPool
    \/ \E g \in ExecutionGraphs : ExecuteImplementationPlan(g)
    \/ StartExecution
    \/ ExecuteLayer
    \/ \E t \in DOMAIN tpc : TaskAcquire(t)
    \/ \E t \in DOMAIN tpc : TaskWorkerReturns(t)
    \/ \E t \in DOMAIN tpc : \E q \in QualityResults : TaskValidated(t, q)
    \/ \E t \in DOMAIN tpc : TaskRecorded(t)
    \/ CollectLayer
    \/ CleanupSession

SpecRun == Init /\ [][NextRun]_vars

\* The pool has at least as many workers as the largest layer.
PoolCoversLayers ==
    \A i \in 1..Len(graph.layers) :
        Cardinality(graph.layers[i]) <= Cardinality(DOMAIN agents)

\* No task of the run has a failed result: every worker execution succeeded,
\* every quality validation passed, every acquire found a worker.
NoTaskFailed ==
    \A t \in DOMAIN results : results[t].status # "failed"

\* C39: a run on a constructed and layered graph, with a pool of at least as
\* many workers as the largest layer, in which no worker execution and no
\* quality validation fails and which is neither paused nor cancelled, ends
\* with the session Completed and every task in the completed set.
C39_SuccessfulRunsComplete ==
    (RunEnded /\ PoolCoversLayers /\ NoTaskFailed) =>
        /\ session.state = "completed"
        /\ session.completed_tasks = graph.tasks

\* The monitor's counters agree with the session's terminal state.
SessionStatisticsAgree ==
    (orch.pc = "finished" /\ FinalizedSessions = 1) =>
        /\ watch.global.successful_sessions = 1 <=> session.state = "completed"
        /\ watch.global.failed_sessions = 1 <=> session.state # "completed"

\* What the sampling loop computes equals the sizes of the session's sets.
SampledCountsAgree ==
    watch.active =>
        LET m == CalculateCurrentMetrics(watch.timeline, Cardinality(graph.tasks))
        IN /\ m.completed_tasks = Cardinality(session.completed_tasks)
           /\ m.failed_tasks = Cardinality(session.failed_tasks)
           /\ m.running_tasks = Cardinality(session.running_tasks)

\* C40: when a session ends the monitor counts it in successful_sessions
\* exactly when the orchestrator's terminal state is Completed, and in
\* failed_sessions otherwise; and the completed, failed and running counts the
\* monitor samples equal the sizes of the session's three task sets.
C40_MonitorAgreesWithOrchestrator ==
    SessionStatisticsAgree /\ SampledCountsAgree

====
